---- MODULE Spec2Model ----
(***************************************************************************)
(* Ledger of the P2P arbitrage system: cycles, days, sales, purchases and  *)
(* the per-cycle vault, as stored in the SQLite database and as mutated by *)
(* the REST routes (api/routes) and by the console modules (modules).     *)
(*                                                                         *)
(* Numbers.  The program computes with floating point; the model computes  *)
(* with exact rationals <<n, d>> (d > 0, lowest terms) and applies the     *)
(* program's round(x, k) calls where the program applies them.  A NULL     *)
(* column is the pair <<0, 0>>.                                            *)
(*                                                                         *)
(* Concurrency.  A REST handler is an `async def` without `await`, run to  *)
(* completion by the event loop: one action.  A console session is another *)
(* operating-system process on the same database file; every              *)
(* db.execute_query / db.execute_update / `with db.get_cursor` of a        *)
(* console function is its own connection and transaction, so a console    *)
(* function is a sequence of storage steps, interleaved with everything    *)
(* else.  pc[p] is the position of session p, loc[p] its local variables.  *)
(***************************************************************************)
EXTENDS Integers, Sequences, FiniteSets, TLC

\* ------------------------------------------------------------------------
\* Bounds of the model
\* ------------------------------------------------------------------------
MaxCiclos == 2
MaxDias == 2
MaxVentas == 2
MaxCompras == 2
MaxCantidad == 4
MaxInversion == 8

Procs == {1, 2}
Criptos == {1}
Cantidades == {1, 2}
Tasas == {1, 2}

\* ------------------------------------------------------------------------
\* Exact rational arithmetic
\* ------------------------------------------------------------------------
Abs(x) == IF x < 0 THEN -x ELSE x

RECURSIVE GCD(_, _)
GCD(a, b) == IF b = 0 THEN a ELSE GCD(b, a % b)

Q(n, d) ==
    LET g == GCD(Abs(n), d)
    IN <<n \div g, d \div g>>

QInt(n) == <<n, 1>>
Zero == <<0, 1>>
NULL == <<0, 0>>

QNeg(a) == <<-a[1], a[2]>>

QAdd(a, b) ==
    LET g == GCD(a[2], b[2])
    IN Q(a[1] * (b[2] \div g) + b[1] * (a[2] \div g), (a[2] \div g) * b[2])

QSub(a, b) == QAdd(a, QNeg(b))

QMul(a, b) ==
    LET g1 == GCD(Abs(a[1]), b[2])
        g2 == GCD(Abs(b[1]), a[2])
    IN IF a[1] = 0 \/ b[1] = 0 THEN Zero
       ELSE <<(a[1] \div g1) * (b[1] \div g2), (a[2] \div g2) * (b[2] \div g1)>>

\* a / b for b # 0
QDiv(a, b) ==
    IF b[1] > 0 THEN QMul(a, <<b[2], b[1]>>)
    ELSE QMul(a, <<-b[2], -b[1]>>)

QLt(a, b) ==
    LET g == GCD(a[2], b[2])
    IN a[1] * (b[2] \div g) < b[1] * (a[2] \div g)

QLe(a, b) == a = b \/ QLt(a, b)

Pow10(k) == IF k = 2 THEN 100 ELSE IF k = 4 THEN 10000 ELSE 1

\* Python round(x, k): nearest multiple of 10^-k, ties to even
Round(a, k) ==
    LET s == Pow10(k)
        g == GCD(s, a[2])
        num == a[1] * (s \div g)
        den == a[2] \div g
        fl == num \div den
        rem == num % den
        r == IF 2 * rem < den THEN fl
             ELSE IF 2 * rem > den THEN fl + 1
             ELSE IF fl % 2 = 0 THEN fl ELSE fl + 1
    IN Q(r, s)

RECURSIVE QSum(_, _)
\* sum of f[i] over the indices in S
QSum(f, S) ==
    IF S = {} THEN Zero
    ELSE LET i == CHOOSE x \in S : TRUE
         IN QAdd(f[i], QSum(f, S \ {i}))

\* ------------------------------------------------------------------------
\* Facts of the build that decide whether a statement can run at all
\* ------------------------------------------------------------------------
\* the public methods of DatabaseManager; the console modules also call
\* db.transaction(), which is not among them and raises AttributeError
DatabaseManager == {"get_cursor", "execute_query", "execute_update", "execute_many"}

\* the columns of table dias; the REST routes iniciar_dia and registrar_venta
\* also name cantidad_cripto, tasa_compra and precio_equilibrio
ColumnasDias ==
    {"id", "ciclo_id", "numero_dia", "fecha", "fecha_cierre", "capital_inicial",
     "capital_final", "efectivo_recibido", "cripto_operada_id", "precio_publicado",
     "comisiones_pagadas", "ganancia_bruta", "ganancia_neta", "estado"}

\* config row 1 as inserted by insertar_datos_iniciales: 0.35 %
ComisionInicial == <<7, 20>>

\* the default of the parameter comision_pct of calcular_venta: 0.35 %
ComisionPorDefecto == <<7, 20>>

\* ------------------------------------------------------------------------
\* State: the tables, the console sessions, the outcome of the last call
\* ------------------------------------------------------------------------
VARIABLES ciclos, dias, ventas, compras, boveda_ciclo, config, pc, loc, ultimo,
          depositos, descontadas

vars == <<ciclos, dias, ventas, compras, boveda_ciclo, config, pc, loc, ultimo,
          depositos, descontadas>>
historia == <<depositos, descontadas>>
tablas == <<ciclos, dias, ventas, compras, boveda_ciclo, config>>

LocInicial ==
    [ciclo_id |-> 0, dia_id |-> 0, cripto_id |-> 0, cantidad |-> Zero,
     precio |-> Zero, comision |-> Zero, numero_dia |-> 0, capital |-> Zero,
     venta_id |-> 0, calc |-> <<>>, tasa |-> Zero, origen |-> "modulo",
     ciclo_origen |-> 0]

Init ==
    /\ ciclos = <<>>
    /\ dias = <<>>
    /\ ventas = <<>>
    /\ compras = <<>>
    /\ boveda_ciclo = <<>>
    /\ config = [comision_default |-> ComisionInicial]
    /\ pc = [p \in Procs |-> "menu"]
    /\ loc = [p \in Procs |-> LocInicial]
    /\ ultimo = [op |-> "ninguna", res |-> "ok"]
    /\ depositos = <<>>
    /\ descontadas = {}

\* ------------------------------------------------------------------------
\* Queries
\* ------------------------------------------------------------------------
CicloIds == DOMAIN ciclos
DiaIds == DOMAIN dias

Activos == {c \in CicloIds : ciclos[c].estado = "activo"}
Cerrados == {c \in CicloIds : ciclos[c].estado = "cerrado"}

Max(S) == CHOOSE x \in S : \A y \in S : y <= x

\* a row of boveda_ciclo is keyed by <<ciclo_id, cripto_id>> (UNIQUE)
Posiciones == DOMAIN boveda_ciclo

Valor(k) == QMul(boveda_ciclo[k].cantidad, boveda_ciclo[k].precio_promedio)

ValorMapa == [k \in Posiciones |-> Valor(k)]

\* SELECT SUM(cantidad * precio_promedio) FROM boveda_ciclo WHERE ciclo_id = ?
CapitalBoveda(c) == QSum(ValorMapa, {k \in Posiciones : k[1] = c})

\* ... WHERE cantidad > 0, over every cycle
CapitalBovedaTotal ==
    QSum(ValorMapa, {k \in Posiciones : QLt(Zero, boveda_ciclo[k].cantidad)})

\* ... JOIN ciclos c WHERE c.estado = 'cerrado' (one aggregate row)
CapitalBovedaCerrados == QSum(ValorMapa, {k \in Posiciones : k[1] \in Cerrados})

Poner(f, k, v) == [x \in (DOMAIN f) \cup {k} |-> IF x = k THEN v ELSE f[x]]
Quitar(f, k) == [x \in (DOMAIN f) \ {k} |-> f[x]]

Resultado(o, r) == [op |-> o, res |-> r]

\* the row a REST route inserts: fecha_inicio is the text of a datetime
\* (datetime('now'), or datetime.now() through the sqlite3 adapter)
NuevoCiclo(dias_plan, inversion) ==
    [estado |-> "activo", dias_planificados |-> dias_plan, dias_operados |-> 0,
     inversion_inicial |-> inversion, capital_final |-> NULL,
     ganancia_total |-> Zero, roi_total |-> NULL,
     fecha_inicio |-> "AAAA-MM-DD HH:MM:SS"]

\* ------------------------------------------------------------------------
\* Cycles
\* ------------------------------------------------------------------------
CapitalesIniciales == {Zero, QInt(5)}
DiasDuracion == {15}

\* POST /api/ciclos/iniciar
ApiIniciarNuevoCiclo(capital_inicial) ==
    /\ UNCHANGED <<dias, ventas, compras, boveda_ciclo, config, pc, loc, historia>>
    /\ IF Activos # {}
       THEN /\ ultimo' = Resultado("api_iniciar_ciclo", "ya_existe_ciclo_activo")
            /\ UNCHANGED ciclos
       ELSE /\ Len(ciclos) < MaxCiclos
            /\ LET capital == IF capital_inicial = Zero
                              THEN CapitalBovedaCerrados
                              ELSE capital_inicial
               IN ciclos' = Append(ciclos, NuevoCiclo(30, capital))
            /\ ultimo' = Resultado("api_iniciar_ciclo", "ok")

\* modules/ciclos.py crear_ciclo, as called from menu_ciclos option 2: it
\* inserts without looking for an active cycle. With an empty vault the
\* operator is asked and may cancel.
CrearCicloInserta(dias_duracion) ==
    /\ Len(ciclos) < MaxCiclos
    /\ ciclos' = Append(ciclos, [NuevoCiclo(dias_duracion, CapitalBovedaTotal)
                                   EXCEPT !.fecha_inicio = "AAAA-MM-DD"])
    /\ ultimo' = Resultado("crear_ciclo", "ok")

CrearCiclo(p, dias_duracion, continuar) ==
    /\ pc[p] = "menu"
    /\ UNCHANGED <<dias, ventas, compras, boveda_ciclo, config, pc, loc, historia>>
    /\ IF CapitalBovedaTotal = Zero /\ ~continuar
       THEN /\ ultimo' = Resultado("crear_ciclo", "cancelado")
            /\ UNCHANGED ciclos
       ELSE CrearCicloInserta(dias_duracion)

\* ------------------------------------------------------------------------
\* Vault
\* ------------------------------------------------------------------------
\* History of each vault row, kept beside the tables: the deposits made into
\* it (total quantity q, total cost v) and whether anything other than a
\* deposit has touched the row (solo = FALSE). The history of a row ends
\* when the row is deleted. descontadas is the set of the sales (ids of
\* ventas) whose quantity an UPDATE has subtracted from the vault.
Anotar(k, cantidad, tasa) ==
    IF k \in DOMAIN depositos
    THEN Poner(depositos, k,
               [q |-> QAdd(depositos[k].q, cantidad),
                v |-> QAdd(depositos[k].v, QMul(cantidad, tasa)),
                solo |-> depositos[k].solo])
    ELSE Poner(depositos, k, [q |-> cantidad, v |-> QMul(cantidad, tasa), solo |-> TRUE])

Tocar(k) ==
    IF k \in DOMAIN depositos
    THEN Poner(depositos, k, [depositos[k] EXCEPT !.solo = FALSE])
    ELSE depositos

\* for comparison with PromedioEnLinea: the mean of the two prices, whatever
\* the quantities
PromedioSinPonderar(cantidad_anterior, precio_anterior, cantidad, tasa) ==
    QDiv(QAdd(precio_anterior, tasa), QInt(2))

\* (costo_anterior + costo_nuevo) / cantidad_total, as registrar_compra,
\* agregar_capital and transferir_capital write it inline
PromedioEnLinea(cantidad_anterior, precio_anterior, cantidad, tasa) ==
    QDiv(QAdd(QMul(cantidad_anterior, precio_anterior), QMul(cantidad, tasa)),
         QAdd(cantidad_anterior, cantidad))

\* core/calculos.py Calculadora.calcular_promedio_ponderado
calcular_promedio_ponderado(cantidad_anterior, precio_anterior, cantidad_nueva, precio_nuevo) ==
    IF QAdd(cantidad_anterior, cantidad_nueva) = Zero THEN Zero
    ELSE Round(QDiv(QAdd(QMul(cantidad_anterior, precio_anterior),
                         QMul(cantidad_nueva, precio_nuevo)),
                    QAdd(cantidad_anterior, cantidad_nueva)), 4)

\* the row after a deposit of `cantidad` at `tasa` (insert or update)
Fondeada(k, cantidad, tasa) ==
    IF k \in Posiciones
    THEN [cantidad |-> QAdd(boveda_ciclo[k].cantidad, cantidad),
          precio_promedio |-> PromedioEnLinea(boveda_ciclo[k].cantidad,
                                             boveda_ciclo[k].precio_promedio,
                                             cantidad, tasa)]
    ELSE [cantidad |-> cantidad, precio_promedio |-> tasa]

Cabe(k, cantidad) ==
    QLe(QAdd(IF k \in Posiciones THEN boveda_ciclo[k].cantidad ELSE Zero, cantidad),
        QInt(MaxCantidad))

Montos == {QInt(2)}

\* POST /api/boveda/agregar-capital: one transaction; creates the cycle when
\* none is active, writes no row of compras
ApiAgregarCapital(cripto, monto_usd, precio_unitario) ==
    /\ UNCHANGED <<dias, ventas, compras, config, pc, loc>>
    /\ Activos = {} => Len(ciclos) < MaxCiclos
    /\ \E ciclo_id \in IF Activos = {} THEN {Len(ciclos) + 1} ELSE Activos :
         LET base == IF Activos = {} THEN Append(ciclos, NuevoCiclo(30, Zero)) ELSE ciclos
             cantidad_cripto == QDiv(monto_usd, precio_unitario)
             k == <<ciclo_id, cripto>>
             nueva == Poner(boveda_ciclo, k, Fondeada(k, cantidad_cripto, precio_unitario))
             total == QSum([x \in DOMAIN nueva |-> QMul(nueva[x].cantidad, nueva[x].precio_promedio)],
                           {x \in DOMAIN nueva : x[1] = ciclo_id})
         IN /\ Cabe(k, cantidad_cripto)
            /\ boveda_ciclo' = nueva
            /\ ciclos' = [base EXCEPT ![ciclo_id].inversion_inicial = total]
            /\ depositos' = Anotar(k, cantidad_cripto, precio_unitario)
            /\ UNCHANGED descontadas
    /\ ultimo' = Resultado("api_agregar_capital", "ok")

\* for comparison with Retirada: a withdrawal that keeps the value of the row
\* by raising its precio_promedio
RetiradaRevaluada(k, cantidad) ==
    [cantidad |-> QSub(boveda_ciclo[k].cantidad, cantidad),
     precio_promedio |-> QDiv(QMul(boveda_ciclo[k].cantidad, boveda_ciclo[k].precio_promedio),
                              QSub(boveda_ciclo[k].cantidad, cantidad))]

\* UPDATE boveda_ciclo SET cantidad = ? WHERE id = ?: the row after a
\* withdrawal that leaves something in it
Retirada(k, cantidad) ==
    [boveda_ciclo[k] EXCEPT !.cantidad = QSub(boveda_ciclo[k].cantidad, cantidad)]

\* POST /api/boveda/retirar-capital
ApiRetirarCapital(cripto, cantidad) ==
    /\ UNCHANGED <<ciclos, dias, ventas, compras, config, pc, loc>>
    /\ IF Activos = {}
       THEN /\ ultimo' = Resultado("api_retirar_capital", "no_hay_ciclo_activo")
            /\ UNCHANGED <<boveda_ciclo, historia>>
       ELSE \E ciclo_id \in Activos :
              LET k == <<ciclo_id, cripto>> IN
              IF k \notin Posiciones
              THEN /\ ultimo' = Resultado("api_retirar_capital", "no_encontrada")
                   /\ UNCHANGED <<boveda_ciclo, historia>>
              ELSE IF QLt(boveda_ciclo[k].cantidad, cantidad)
              THEN /\ ultimo' = Resultado("api_retirar_capital", "insuficiente")
                   /\ UNCHANGED <<boveda_ciclo, historia>>
              ELSE LET cantidad_nueva == QSub(boveda_ciclo[k].cantidad, cantidad) IN
                   /\ boveda_ciclo' = IF QLe(cantidad_nueva, Zero)
                                      THEN Quitar(boveda_ciclo, k)
                                      ELSE Poner(boveda_ciclo, k, Retirada(k, cantidad))
                   /\ UNCHANGED descontadas
                   /\ depositos' = IF QLe(cantidad_nueva, Zero)
                                   THEN Quitar(depositos, k)
                                   ELSE Tocar(k)
                   /\ ultimo' = Resultado("api_retirar_capital", "ok")

\* ------------------------------------------------------------------------
\* Days: queries and the pure calculations
\* ------------------------------------------------------------------------
DiasDe(c) == {d \in DiaIds : dias[d].ciclo_id = c}
Abiertos(c) == {d \in DiasDe(c) : dias[d].estado = "abierto"}

\* core/queries.py obtener_dia_abierto, modules/dias.py obtener_dia_actual:
\* ORDER BY numero_dia DESC LIMIT 1; rows with the same numero_dia tie
obtener_dia_abierto(c) ==
    {d \in Abiertos(c) : \A e \in Abiertos(c) : dias[e].numero_dia <= dias[d].numero_dia}

\* COALESCE(MAX(numero_dia), 0)
UltimoNumero(c) == IF DiasDe(c) = {} THEN 0 ELSE Max({dias[d].numero_dia : d \in DiasDe(c)})

\* calcular_capital_total adding up the quantities without their price
CapitalSinPrecio(c) ==
    Round(QSum([k \in Posiciones |-> boveda_ciclo[k].cantidad],
               {k \in Posiciones : k[1] = c /\ QLt(Zero, boveda_ciclo[k].cantidad)}), 2)

\* core/calculos.py calcular_capital_total over obtener_criptos_disponibles
calcular_capital_actual_criptos(c) ==
    Round(QSum(ValorMapa, {k \in Posiciones : k[1] = c /\ QLt(Zero, boveda_ciclo[k].cantidad)}), 2)

NuevoDia(ciclo_id, numero_dia, capital_inicial) ==
    [ciclo_id |-> ciclo_id, numero_dia |-> numero_dia, capital_inicial |-> capital_inicial,
     capital_final |-> NULL, efectivo_recibido |-> Zero, cripto_operada_id |-> 0,
     precio_publicado |-> NULL, comisiones_pagadas |-> Zero, ganancia_bruta |-> Zero,
     ganancia_neta |-> Zero, estado |-> "abierto"]

\* calcular_venta with the cost taken at the sale price
CalcularVentaCostoAlPrecio(cantidad, costo_unitario, precio_venta, comision_pct) ==
    IF QLe(cantidad, Zero) \/ QLe(costo_unitario, Zero) \/ QLe(precio_venta, Zero)
    THEN <<>>
    ELSE LET costo_total == QMul(cantidad, precio_venta)
             monto_venta == QMul(cantidad, precio_venta)
             comision == QMul(monto_venta, QDiv(comision_pct, QInt(100)))
             efectivo_recibido == QSub(monto_venta, comision)
         IN [costo_total |-> Round(costo_total, 2), monto_venta |-> Round(monto_venta, 2),
             comision |-> Round(comision, 2), efectivo_recibido |-> Round(efectivo_recibido, 2),
             ganancia_bruta |-> Round(QSub(monto_venta, costo_total), 2),
             ganancia_neta |-> Round(QSub(efectivo_recibido, costo_total), 2)]

\* core/calculos.py calcular_venta; <<>> stands for None
calcular_venta(cantidad, costo_unitario, precio_venta, comision_pct) ==
    IF QLe(cantidad, Zero) \/ QLe(costo_unitario, Zero) \/ QLe(precio_venta, Zero)
    THEN <<>>
    ELSE LET costo_total == QMul(cantidad, costo_unitario)
             monto_venta == QMul(cantidad, precio_venta)
             comision == QMul(monto_venta, QDiv(comision_pct, QInt(100)))
             efectivo_recibido == QSub(monto_venta, comision)
         IN [costo_total |-> Round(costo_total, 2),
             monto_venta |-> Round(monto_venta, 2),
             comision |-> Round(comision, 2),
             efectivo_recibido |-> Round(efectivo_recibido, 2),
             ganancia_bruta |-> Round(QSub(monto_venta, costo_total), 2),
             ganancia_neta |-> Round(QSub(efectivo_recibido, costo_total), 2)]

VentasDe(d) == {v \in DOMAIN ventas : ventas[v].dia_id = d}

Ir(p, donde) == pc' = [pc EXCEPT ![p] = donde]
AlMenu(p) == /\ pc' = [pc EXCEPT ![p] = "menu"]
             /\ loc' = [loc EXCEPT ![p] = LocInicial]

\* ------------------------------------------------------------------------
\* modules/operador.py modulo_operador: opening the day
\* ------------------------------------------------------------------------
\* queries.obtener_ciclo_activo()
ModuloOperador(p) ==
    /\ pc[p] = "menu"
    /\ UNCHANGED <<tablas, historia>>
    /\ IF Activos = {}
       THEN /\ ultimo' = Resultado("modulo_operador", "no_hay_ciclo_activo")
            /\ UNCHANGED <<pc, loc>>
       ELSE /\ loc' = [loc EXCEPT ![p].ciclo_id = Max(Activos)]
            /\ Ir(p, "op_dia")
            /\ ultimo' = Resultado("modulo_operador", "ok")

\* queries.obtener_dia_abierto(ciclo['id'])
ModuloOperadorDiaAbierto(p, continuar) ==
    /\ pc[p] = "op_dia"
    /\ UNCHANGED <<tablas, historia>>
    /\ LET c == loc[p].ciclo_id IN
       IF obtener_dia_abierto(c) = {}
       THEN /\ Ir(p, "op_capital")
            /\ UNCHANGED loc
            /\ ultimo' = Resultado("obtener_dia_abierto", "ninguno")
       ELSE IF continuar
       THEN /\ \E d \in obtener_dia_abierto(c) : loc' = [loc EXCEPT ![p].dia_id = d]
            /\ Ir(p, "op_criptos")
            /\ ultimo' = Resultado("obtener_dia_abierto", "continua")
       ELSE /\ AlMenu(p)
            /\ ultimo' = Resultado("obtener_dia_abierto", "sale")

\* queries.obtener_capital_boveda(ciclo['id'])
ModuloOperadorCapital(p) ==
    /\ pc[p] = "op_capital"
    /\ UNCHANGED <<tablas, historia, ultimo>>
    /\ loc' = [loc EXCEPT ![p].capital = CapitalBoveda(loc[p].ciclo_id)]
    /\ Ir(p, "op_numero")

\* iniciar_dia_operacion: SELECT MAX(numero_dia)
IniciarDiaOperacionNumero(p) ==
    /\ pc[p] = "op_numero"
    /\ UNCHANGED <<tablas, historia, ultimo>>
    /\ loc' = [loc EXCEPT ![p].numero_dia = UltimoNumero(loc[p].ciclo_id) + 1]
    /\ Ir(p, "op_inserta")

\* iniciar_dia_operacion: INSERT INTO dias
IniciarDiaOperacionInserta(p) ==
    /\ pc[p] = "op_inserta"
    /\ Len(dias) < MaxDias
    /\ UNCHANGED <<ciclos, ventas, compras, boveda_ciclo, config, historia>>
    /\ dias' = Append(dias, NuevoDia(loc[p].ciclo_id, loc[p].numero_dia, loc[p].capital))
    /\ loc' = [loc EXCEPT ![p].dia_id = Len(dias) + 1]
    /\ Ir(p, "op_criptos")
    /\ ultimo' = Resultado("iniciar_dia_operacion", "ok")

\* ------------------------------------------------------------------------
\* modules/operador.py modulo_operador: the asset, the price, the sale loop
\* ------------------------------------------------------------------------
PreciosVenta == {QInt(2)}
CantidadesVendidas == {Zero, QInt(1), QInt(2)}

\* queries.obtener_criptos_boveda and the operator's choice
ModuloOperadorCriptos(p, cripto) ==
    /\ pc[p] = "op_criptos"
    /\ UNCHANGED <<tablas, historia>>
    /\ LET c == loc[p].ciclo_id
           disponibles == {k \in Posiciones : k[1] = c /\ QLt(Zero, boveda_ciclo[k].cantidad)}
       IN IF disponibles = {}
          THEN /\ AlMenu(p)
               /\ ultimo' = Resultado("modulo_operador", "sin_criptos")
          ELSE /\ <<c, cripto>> \in disponibles
               /\ loc' = [loc EXCEPT ![p].cripto_id = cripto]
               /\ Ir(p, "op_config")
               /\ ultimo' = Resultado("modulo_operador", "cripto_elegida")

\* queries.obtener_config(): the commission is read once, here
ModuloOperadorConfig(p) ==
    /\ pc[p] = "op_config"
    /\ UNCHANGED <<tablas, historia, ultimo>>
    /\ loc' = [loc EXCEPT ![p].comision = config.comision_default]
    /\ Ir(p, "op_precio")

\* UPDATE dias SET cripto_operada_id, precio_publicado
ModuloOperadorPrecio(p, precio_publicado) ==
    /\ pc[p] = "op_precio"
    /\ UNCHANGED <<ciclos, ventas, compras, boveda_ciclo, config, historia, ultimo>>
    /\ dias' = [dias EXCEPT ![loc[p].dia_id].cripto_operada_id = loc[p].cripto_id,
                            ![loc[p].dia_id].precio_publicado = precio_publicado]
    /\ loc' = [loc EXCEPT ![p].precio = precio_publicado]
    /\ Ir(p, "op_venta")

\* operador.obtener_cantidad_disponible
CantidadDisponible(k) == IF k \in Posiciones THEN boveda_ciclo[k].cantidad ELSE Zero

\* top of the loop: the available quantity is read, the operator types a
\* quantity (0 ends the loop), a quantity above the one read is refused
ModuloOperadorVenta(p, cantidad_vendida) ==
    /\ pc[p] = "op_venta"
    /\ UNCHANGED <<tablas, historia>>
    /\ LET cantidad_disponible == CantidadDisponible(<<loc[p].ciclo_id, loc[p].cripto_id>>) IN
       IF QLe(cantidad_disponible, Zero) \/ cantidad_vendida = Zero
       THEN /\ Ir(p, "op_cierre")
            /\ UNCHANGED loc
            /\ ultimo' = Resultado("modulo_operador", "fin_ventas")
       ELSE IF QLt(cantidad_disponible, cantidad_vendida)
       THEN /\ UNCHANGED <<pc, loc>>
            /\ ultimo' = Resultado("modulo_operador", "cantidad_excede")
       ELSE /\ loc' = [loc EXCEPT ![p].cantidad = cantidad_vendida]
            /\ Ir(p, "rv_lee")
            /\ ultimo' = Resultado("modulo_operador", "venta_pedida")

\* ------------------------------------------------------------------------
\* modules/operador.py registrar_venta_manual: four storage steps
\* ------------------------------------------------------------------------
\* SELECT ciclo_id FROM dias; SELECT precio_promedio FROM boveda_ciclo;
\* calc.calcular_venta. A ValueError returns to the loop of modulo_operador.
RegistrarVentaManualLee(p) ==
    /\ pc[p] = "rv_lee"
    /\ UNCHANGED <<tablas, historia>>
    /\ LET k == <<dias[loc[p].dia_id].ciclo_id, loc[p].cripto_id>>
           venta_calculada == calcular_venta(loc[p].cantidad, boveda_ciclo[k].precio_promedio,
                                             loc[p].precio, loc[p].comision)
       IN IF k \notin Posiciones
          THEN /\ Ir(p, "op_venta")
               /\ UNCHANGED loc
               /\ ultimo' = Resultado("registrar_venta_manual", "no_hay_criptos_en_boveda")
          ELSE IF venta_calculada = <<>>
          THEN /\ Ir(p, "op_venta")
               /\ UNCHANGED loc
               /\ ultimo' = Resultado("registrar_venta_manual", "error_al_calcular")
          ELSE /\ loc' = [loc EXCEPT ![p].calc = venta_calculada]
               /\ Ir(p, "rv_inserta")
               /\ ultimo' = Resultado("registrar_venta_manual", "calculada")

\* INSERT INTO ventas, committed on its own
RegistrarVentaManualInserta(p) ==
    /\ pc[p] = "rv_inserta"
    /\ Len(ventas) < MaxVentas
    /\ UNCHANGED <<ciclos, dias, compras, boveda_ciclo, config, historia>>
    /\ ventas' = Append(ventas,
                        [dia_id |-> loc[p].dia_id, cripto_id |-> loc[p].cripto_id,
                         cantidad |-> loc[p].cantidad, precio_unitario |-> loc[p].precio,
                         costo_total |-> loc[p].calc.costo_total,
                         monto_venta |-> loc[p].calc.monto_venta,
                         comision |-> loc[p].calc.comision,
                         efectivo_recibido |-> loc[p].calc.efectivo_recibido,
                         ganancia_bruta |-> loc[p].calc.ganancia_bruta,
                         ganancia_neta |-> loc[p].calc.ganancia_neta])
    /\ loc' = [loc EXCEPT ![p].venta_id = Len(ventas) + 1]
    /\ Ir(p, "rv_boveda")
    /\ ultimo' = Resultado("registrar_venta_manual", "venta_insertada")

\* for comparison with QuedaNegativa: the UPDATE without the check after it
QuedaNegativaSinVerificar(k, cantidad) == FALSE

\* `if result and result['cantidad'] < 0`, evaluated after the UPDATE and
\* inside its transaction
QuedaNegativa(k, cantidad) == QLt(QSub(boveda_ciclo[k].cantidad, cantidad), Zero)

\* UPDATE boveda_ciclo SET cantidad = cantidad - ?; SELECT cantidad; a
\* negative result raises ValueError and the cursor rolls this update back
RegistrarVentaManualBoveda(p) ==
    /\ pc[p] = "rv_boveda"
    /\ UNCHANGED <<ciclos, dias, ventas, compras, config, loc>>
    /\ LET k == <<dias[loc[p].dia_id].ciclo_id, loc[p].cripto_id>> IN
       IF k \notin Posiciones
       THEN /\ UNCHANGED <<boveda_ciclo, historia>>
            /\ Ir(p, "rv_dia")
            /\ ultimo' = Resultado("registrar_venta_manual", "boveda_sin_fila")
       ELSE IF QuedaNegativa(k, loc[p].cantidad)
       THEN /\ UNCHANGED <<boveda_ciclo, historia>>
            /\ Ir(p, "op_venta")
            /\ ultimo' = Resultado("registrar_venta_manual", "cantidad_insuficiente")
       ELSE /\ boveda_ciclo' = Poner(boveda_ciclo, k,
                                     [boveda_ciclo[k] EXCEPT
                                        !.cantidad = QSub(boveda_ciclo[k].cantidad, loc[p].cantidad)])
            /\ depositos' = Tocar(k)
            /\ descontadas' = descontadas \cup {loc[p].venta_id}
            /\ Ir(p, "rv_dia")
            /\ ultimo' = Resultado("registrar_venta_manual", "boveda_actualizada")

\* UPDATE dias SET efectivo_recibido = efectivo_recibido + ?, ...
RegistrarVentaManualDia(p, otra) ==
    /\ pc[p] = "rv_dia"
    /\ UNCHANGED <<ciclos, ventas, compras, boveda_ciclo, config, historia, loc>>
    /\ LET d == loc[p].dia_id
           v == loc[p].calc
       IN dias' = [dias EXCEPT
                     ![d].efectivo_recibido = QAdd(dias[d].efectivo_recibido, v.efectivo_recibido),
                     ![d].comisiones_pagadas = QAdd(dias[d].comisiones_pagadas, v.comision),
                     ![d].ganancia_bruta = QAdd(dias[d].ganancia_bruta, v.ganancia_bruta),
                     ![d].ganancia_neta = QAdd(dias[d].ganancia_neta, v.ganancia_neta)]
    /\ Ir(p, IF otra THEN "op_venta" ELSE "op_cierre")
    /\ ultimo' = Resultado("registrar_venta_manual", "ok")

\* ------------------------------------------------------------------------
\* modules/operador.py: closing the day
\* ------------------------------------------------------------------------
Sumar(d, campo) == QSum([v \in DOMAIN ventas |-> ventas[v][campo]], VentasDe(d))

\* end of modulo_operador: "cerrar el dia de operacion?"
ModuloOperadorCierre(p, cerrar) ==
    /\ pc[p] = "op_cierre"
    /\ UNCHANGED <<tablas, historia>>
    /\ IF cerrar
       THEN /\ Ir(p, "cd_lee")
            /\ UNCHANGED loc
            /\ ultimo' = Resultado("modulo_operador", "cierra")
       ELSE /\ AlMenu(p)
            /\ ultimo' = Resultado("modulo_operador", "sale")

\* menu_operador_avanzado option 2
CerrarDiaManual(p, confirmar) ==
    /\ pc[p] = "menu"
    /\ UNCHANGED <<tablas, historia>>
    /\ IF Activos = {}
       THEN /\ UNCHANGED <<pc, loc>>
            /\ ultimo' = Resultado("cerrar_dia_manual", "no_hay_ciclo_activo")
       ELSE IF obtener_dia_abierto(Max(Activos)) = {} \/ ~confirmar
       THEN /\ UNCHANGED <<pc, loc>>
            /\ ultimo' = Resultado("cerrar_dia_manual", "nada_que_cerrar")
       ELSE /\ \E d \in obtener_dia_abierto(Max(Activos)) :
                 loc' = [loc EXCEPT ![p].dia_id = d, ![p].origen = "manual"]
            /\ Ir(p, "cd_lee")
            /\ ultimo' = Resultado("cerrar_dia_manual", "cierra")

\* cerrar_dia_operacion: SELECT the day, SELECT its sales, compute the totals
CerrarDiaOperacionLee(p, confirmar) ==
    /\ pc[p] = "cd_lee"
    /\ UNCHANGED <<tablas, historia>>
    /\ LET d == loc[p].dia_id IN
       IF dias[d].estado = "cerrado"
       THEN /\ AlMenu(p)
            /\ ultimo' = Resultado("cerrar_dia_operacion", "ya_cerrado")
       ELSE IF VentasDe(d) = {} /\ ~confirmar
       THEN /\ AlMenu(p)
            /\ ultimo' = Resultado("cerrar_dia_operacion", "cancelado")
       ELSE /\ loc' = [loc EXCEPT
                         ![p].ciclo_id = dias[d].ciclo_id,
                         ![p].calc = [efectivo_recibido |-> Sumar(d, "efectivo_recibido"),
                                      comision |-> Sumar(d, "comision"),
                                      ganancia_bruta |-> Sumar(d, "ganancia_bruta"),
                                      ganancia_neta |-> Sumar(d, "ganancia_neta"),
                                      capital_final |-> QAdd(dias[d].capital_inicial,
                                                             Sumar(d, "ganancia_neta"))]]
            /\ Ir(p, "cd_dia")
            /\ ultimo' = Resultado("cerrar_dia_operacion", "leido")

\* cerrar_dia_operacion: UPDATE dias ... estado = 'cerrado'
CerrarDiaOperacionDia(p) ==
    /\ pc[p] = "cd_dia"
    /\ UNCHANGED <<ciclos, ventas, compras, boveda_ciclo, config, historia, loc>>
    /\ dias' = [dias EXCEPT ![loc[p].dia_id] =
                  [@ EXCEPT !.capital_final = loc[p].calc.capital_final,
                            !.efectivo_recibido = loc[p].calc.efectivo_recibido,
                            !.comisiones_pagadas = loc[p].calc.comision,
                            !.ganancia_bruta = loc[p].calc.ganancia_bruta,
                            !.ganancia_neta = loc[p].calc.ganancia_neta,
                            !.estado = "cerrado"]]
    /\ Ir(p, "cd_ciclo")
    /\ ultimo' = Resultado("cerrar_dia_operacion", "dia_cerrado")

\* cerrar_dia_operacion: UPDATE ciclos; then modulo_operador offers to
\* reinvest the cash of the day
CerrarDiaOperacionCiclo(p, interes) ==
    /\ pc[p] = "cd_ciclo"
    /\ UNCHANGED <<dias, ventas, compras, boveda_ciclo, config, historia>>
    /\ LET c == loc[p].ciclo_id IN
       ciclos' = [ciclos EXCEPT
                    ![c].dias_operados = @ + 1,
                    ![c].ganancia_total = QAdd(@, loc[p].calc.ganancia_neta)]
    /\ IF loc[p].origen = "modulo" /\ interes
       THEN /\ Ir(p, "ic_lee")
            /\ UNCHANGED loc
       ELSE AlMenu(p)
    /\ ultimo' = Resultado("cerrar_dia_operacion", "ok")

\* ------------------------------------------------------------------------
\* modules/operador.py aplicar_interes_compuesto
\* ------------------------------------------------------------------------
DiasCerrados(c) == {d \in DiasDe(c) : dias[d].estado = "cerrado"}

\* menu_operador_avanzado option 5
AplicarInteresManual(p) ==
    /\ pc[p] = "menu"
    /\ UNCHANGED <<tablas, historia>>
    /\ IF Activos = {}
       THEN /\ UNCHANGED <<pc, loc>>
            /\ ultimo' = Resultado("aplicar_interes_manual", "no_hay_ciclo_activo")
       ELSE /\ loc' = [loc EXCEPT ![p].ciclo_id = Max(Activos)]
            /\ Ir(p, "ic_lee")
            /\ ultimo' = Resultado("aplicar_interes_manual", "ok")

\* the last closed day of the cycle and its efectivo_recibido; the asset
\* and the rate are typed by the operator
AplicarInteresCompuestoLee(p, cripto, tasa) ==
    /\ pc[p] = "ic_lee"
    /\ UNCHANGED <<tablas, historia>>
    /\ LET c == loc[p].ciclo_id
           ultimos == {d \in DiasCerrados(c) :
                         \A e \in DiasCerrados(c) : dias[e].numero_dia <= dias[d].numero_dia}
       IN IF ultimos = {}
          THEN /\ AlMenu(p)
               /\ ultimo' = Resultado("aplicar_interes_compuesto", "no_hay_dias_cerrados")
          ELSE \E d \in ultimos :
                 IF QLe(dias[d].efectivo_recibido, Zero)
                 THEN /\ AlMenu(p)
                      /\ ultimo' = Resultado("aplicar_interes_compuesto", "no_hay_efectivo")
                 ELSE /\ loc' = [loc EXCEPT ![p].cripto_id = cripto,
                                            ![p].tasa = tasa,
                                            ![p].capital = dias[d].efectivo_recibido,
                                            ![p].cantidad = QDiv(dias[d].efectivo_recibido, tasa)]
                      /\ Ir(p, "ic_compra")
                      /\ ultimo' = Resultado("aplicar_interes_compuesto", "confirmado")

\* INSERT INTO compras, committed on its own
AplicarInteresCompuestoCompra(p) ==
    /\ pc[p] = "ic_compra"
    /\ Len(compras) < MaxCompras
    /\ UNCHANGED <<ciclos, dias, ventas, boveda_ciclo, config, historia, loc>>
    /\ compras' = Append(compras,
                         [ciclo_id |-> loc[p].ciclo_id, cripto_id |-> loc[p].cripto_id,
                          cantidad |-> loc[p].cantidad, monto_usd |-> loc[p].capital,
                          tasa |-> loc[p].tasa])
    /\ Ir(p, "ic_boveda")
    /\ ultimo' = Resultado("aplicar_interes_compuesto", "compra_insertada")

\* the vault row: calc.calcular_promedio_ponderado, or a new row
AplicarInteresCompuestoBoveda(p) ==
    /\ pc[p] = "ic_boveda"
    /\ UNCHANGED <<ciclos, dias, ventas, compras, config>>
    /\ LET k == <<loc[p].ciclo_id, loc[p].cripto_id>> IN
       /\ Cabe(k, loc[p].cantidad)
       /\ boveda_ciclo' =
            IF k \in Posiciones
            THEN Poner(boveda_ciclo, k,
                       [cantidad |-> QAdd(boveda_ciclo[k].cantidad, loc[p].cantidad),
                        precio_promedio |->
                          calcular_promedio_ponderado(boveda_ciclo[k].cantidad,
                                                      boveda_ciclo[k].precio_promedio,
                                                      loc[p].cantidad, loc[p].tasa)])
            ELSE Poner(boveda_ciclo, k,
                       [cantidad |-> loc[p].cantidad, precio_promedio |-> loc[p].tasa])
       /\ depositos' = Anotar(k, loc[p].cantidad, loc[p].tasa)
       /\ UNCHANGED descontadas
    /\ AlMenu(p)
    /\ ultimo' = Resultado("aplicar_interes_compuesto", "ok")

\* ------------------------------------------------------------------------
\* modules/dias.py iniciar_dia(ciclo_id): four storage steps
\* ------------------------------------------------------------------------
\* obtener_dia_actual: an open day is returned as is
IniciarDiaVerifica(p, ciclo_id) ==
    /\ pc[p] = "menu"
    /\ ciclo_id \in CicloIds
    /\ UNCHANGED <<tablas, historia>>
    /\ IF obtener_dia_abierto(ciclo_id) # {}
       THEN /\ UNCHANGED <<pc, loc>>
            /\ ultimo' = Resultado("iniciar_dia", "ya_existe_dia_abierto")
       ELSE /\ loc' = [loc EXCEPT ![p].ciclo_id = ciclo_id]
            /\ Ir(p, "id_numero")
            /\ ultimo' = Resultado("iniciar_dia", "verificado")

\* SELECT COALESCE(MAX(numero_dia), 0) + 1
IniciarDiaNumero(p) ==
    /\ pc[p] = "id_numero"
    /\ UNCHANGED <<tablas, historia, ultimo>>
    /\ loc' = [loc EXCEPT ![p].numero_dia = UltimoNumero(loc[p].ciclo_id) + 1]
    /\ Ir(p, "id_capital")

\* calcular_capital_actual_criptos
IniciarDiaCapital(p) ==
    /\ pc[p] = "id_capital"
    /\ UNCHANGED <<tablas, historia, ultimo>>
    /\ loc' = [loc EXCEPT ![p].capital = calcular_capital_actual_criptos(loc[p].ciclo_id)]
    /\ Ir(p, "id_inserta")

\* INSERT INTO dias
IniciarDiaInserta(p) ==
    /\ pc[p] = "id_inserta"
    /\ Len(dias) < MaxDias
    /\ UNCHANGED <<ciclos, ventas, compras, boveda_ciclo, config, historia>>
    /\ dias' = Append(dias, NuevoDia(loc[p].ciclo_id, loc[p].numero_dia, loc[p].capital))
    /\ AlMenu(p)
    /\ ultimo' = Resultado("iniciar_dia", "ok")

\* ------------------------------------------------------------------------
\* modules/dias.py cerrar_dia(dia_id, ciclo_id)
\* ------------------------------------------------------------------------
\* SELECT COALESCE(SUM(monto), 0) FROM efectivo_banco WHERE dia_id = ?: the
\* only INSERT INTO efectivo_banco sits inside the `with db.transaction()`
\* of registrar_venta, which never runs, so the table has no rows
EfectivoBanco(dia_id) == Zero

\* for comparison with CerrarDiaVerifica: a first step that does not look
\* at the estado of the day
CerrarDiaSinVerificar(p, dia_id, confirmar) ==
    /\ pc[p] = "menu"
    /\ UNCHANGED <<tablas, historia>>
    /\ IF dia_id \notin DiaIds
       THEN /\ UNCHANGED <<pc, loc>>
            /\ ultimo' = Resultado("cerrar_dia", "no_encontrado")
       ELSE IF VentasDe(dia_id) = {} /\ ~confirmar
       THEN /\ UNCHANGED <<pc, loc>>
            /\ ultimo' = Resultado("cerrar_dia", "cancelado")
       ELSE /\ loc' = [loc EXCEPT ![p].dia_id = dia_id,
                                  ![p].ciclo_id = dias[dia_id].ciclo_id]
            /\ Ir(p, "dd_capital")
            /\ ultimo' = Resultado("cerrar_dia", "verificado")

\* cerrar_dia: obtener_dia, the check of estado, obtener_ventas_del_dia and
\* the question asked when the day has no sales
CerrarDiaVerifica(p, dia_id, confirmar) ==
    /\ pc[p] = "menu"
    /\ UNCHANGED <<tablas, historia>>
    /\ IF dia_id \notin DiaIds
       THEN /\ UNCHANGED <<pc, loc>>
            /\ ultimo' = Resultado("cerrar_dia", "no_encontrado")
       ELSE IF dias[dia_id].estado # "abierto"
       THEN /\ UNCHANGED <<pc, loc>>
            /\ ultimo' = Resultado("cerrar_dia", "ya_cerrado")
       ELSE IF VentasDe(dia_id) = {} /\ ~confirmar
       THEN /\ UNCHANGED <<pc, loc>>
            /\ ultimo' = Resultado("cerrar_dia", "cancelado")
       ELSE /\ loc' = [loc EXCEPT ![p].dia_id = dia_id,
                                  ![p].ciclo_id = dias[dia_id].ciclo_id]
            /\ Ir(p, "dd_capital")
            /\ ultimo' = Resultado("cerrar_dia", "verificado")

\* cerrar_dia: capital_final_criptos = calcular_capital_actual_criptos(ciclo_id)
CerrarDiaCapital(p) ==
    /\ pc[p] = "dd_capital"
    /\ UNCHANGED <<tablas, historia>>
    /\ loc' = [loc EXCEPT ![p].capital = calcular_capital_actual_criptos(loc[p].ciclo_id)]
    /\ Ir(p, "dd_totales")
    /\ ultimo' = Resultado("cerrar_dia", "capital")

\* cerrar_dia: the cash of the day and the totals of its sales
CerrarDiaTotales(p) ==
    /\ pc[p] = "dd_totales"
    /\ UNCHANGED <<tablas, historia>>
    /\ LET d == loc[p].dia_id IN
       loc' = [loc EXCEPT
                 ![p].calc = [efectivo_recibido |-> EfectivoBanco(d),
                              comision |-> Sumar(d, "comision"),
                              ganancia_bruta |-> Sumar(d, "ganancia_bruta"),
                              ganancia_neta |-> Sumar(d, "ganancia_neta"),
                              capital_final |-> QAdd(loc[p].capital, EfectivoBanco(d))]]
    /\ Ir(p, "dd_dia")
    /\ ultimo' = Resultado("cerrar_dia", "totales")

\* cerrar_dia: UPDATE dias SET ... estado = 'cerrado' WHERE id = ?
CerrarDiaActualizaDia(p) ==
    /\ pc[p] = "dd_dia"
    /\ UNCHANGED <<ciclos, ventas, compras, boveda_ciclo, config, historia, loc>>
    /\ dias' = [dias EXCEPT ![loc[p].dia_id] =
                  [@ EXCEPT !.capital_final = loc[p].calc.capital_final,
                            !.efectivo_recibido = loc[p].calc.efectivo_recibido,
                            !.comisiones_pagadas = loc[p].calc.comision,
                            !.ganancia_bruta = loc[p].calc.ganancia_bruta,
                            !.ganancia_neta = loc[p].calc.ganancia_neta,
                            !.estado = "cerrado"]]
    /\ Ir(p, "dd_ciclo")
    /\ ultimo' = Resultado("cerrar_dia", "dia_cerrado")

\* cerrar_dia: UPDATE ciclos SET dias_operados = dias_operados + 1,
\* ganancia_total = ganancia_total + ?
CerrarDiaActualizaCiclo(p) ==
    /\ pc[p] = "dd_ciclo"
    /\ UNCHANGED <<dias, ventas, compras, boveda_ciclo, config, historia>>
    /\ LET c == loc[p].ciclo_id IN
       ciclos' = [ciclos EXCEPT
                    ![c].dias_operados = @ + 1,
                    ![c].ganancia_total = QAdd(@, loc[p].calc.ganancia_neta)]
    /\ AlMenu(p)
    /\ ultimo' = Resultado("cerrar_dia", "ok")

\* ------------------------------------------------------------------------
\* modules/dias.py registrar_venta(dia_id, cripto_id, cantidad, precio)
\* ------------------------------------------------------------------------
\* the statements inside `with db.transaction() as conn`
VentaEnTransaccion(dia_id, cripto_id, cantidad, precio_unitario, r) ==
    LET k == <<dias[dia_id].ciclo_id, cripto_id>> IN
    /\ Len(ventas) < MaxVentas
    /\ ventas' = Append(ventas,
                        [dia_id |-> dia_id, cripto_id |-> cripto_id, cantidad |-> cantidad,
                         precio_unitario |-> precio_unitario, costo_total |-> r.costo_total,
                         monto_venta |-> r.monto_venta, comision |-> r.comision,
                         efectivo_recibido |-> r.efectivo_recibido,
                         ganancia_bruta |-> r.ganancia_bruta,
                         ganancia_neta |-> r.ganancia_neta])
    /\ boveda_ciclo' = Poner(boveda_ciclo, k,
                             [boveda_ciclo[k] EXCEPT !.cantidad = QSub(@, cantidad)])
    /\ depositos' = Tocar(k)
    /\ descontadas' = descontadas \cup {Len(ventas) + 1}
    /\ ultimo' = Resultado("registrar_venta", "ok")

\* The reads write nothing and the only writes are inside db.transaction(),
\* so the whole call is one step. calc.calcular_venta is called without
\* comision_pct and uses its default 0.35.
RegistrarVenta(dia_id, cripto_id, cantidad, precio_unitario) ==
    /\ UNCHANGED <<ciclos, dias, compras, config, pc, loc>>
    /\ LET k == <<dias[dia_id].ciclo_id, cripto_id>>
           costo_unitario == IF k \in Posiciones THEN boveda_ciclo[k].precio_promedio ELSE Zero
           resultado_venta == calcular_venta(cantidad, costo_unitario, precio_unitario, ComisionPorDefecto)
       IN IF dia_id \notin DiaIds
          THEN /\ ultimo' = Resultado("registrar_venta", "dia_no_encontrado")
               /\ UNCHANGED <<ventas, boveda_ciclo, historia>>
          ELSE IF costo_unitario = Zero
          THEN /\ ultimo' = Resultado("registrar_venta", "costo_promedio_es_0")
               /\ UNCHANGED <<ventas, boveda_ciclo, historia>>
          ELSE IF QLt(CantidadDisponible(k), cantidad)
          THEN /\ ultimo' = Resultado("registrar_venta", "cantidad_insuficiente")
               /\ UNCHANGED <<ventas, boveda_ciclo, historia>>
          ELSE IF resultado_venta = <<>>
          THEN /\ ultimo' = Resultado("registrar_venta", "error_al_calcular")
               /\ UNCHANGED <<ventas, boveda_ciclo, historia>>
          ELSE IF "transaction" \in DatabaseManager
          THEN VentaEnTransaccion(dia_id, cripto_id, cantidad, precio_unitario, resultado_venta)
          ELSE /\ ultimo' = Resultado("registrar_venta", "AttributeError")
               /\ UNCHANGED <<ventas, boveda_ciclo, historia>>

\* ------------------------------------------------------------------------
\* REST routes of api/routes/operaciones.py: each one transaction
\* ------------------------------------------------------------------------
\* POST /api/operaciones/iniciar-dia. The INSERT names cantidad_cripto,
\* tasa_compra and precio_equilibrio.
ApiIniciarDia(cripto_id, capital_usd) ==
    /\ UNCHANGED <<ciclos, ventas, compras, boveda_ciclo, config, pc, loc, historia>>
    /\ IF Activos = {}
       THEN /\ ultimo' = Resultado("api_iniciar_dia", "no_hay_ciclo_activo")
            /\ UNCHANGED dias
       ELSE \E ciclo_id \in Activos :
              IF Abiertos(ciclo_id) # {}
              THEN /\ ultimo' = Resultado("api_iniciar_dia", "ya_hay_un_dia_abierto")
                   /\ UNCHANGED dias
              ELSE IF {"cantidad_cripto", "tasa_compra", "precio_equilibrio"} \subseteq ColumnasDias
              THEN /\ Len(dias) < MaxDias
                   /\ dias' = Append(dias, [NuevoDia(ciclo_id, UltimoNumero(ciclo_id) + 1, capital_usd)
                                              EXCEPT !.cripto_operada_id = cripto_id])
                   /\ ultimo' = Resultado("api_iniciar_dia", "ok")
              ELSE /\ ultimo' = Resultado("api_iniciar_dia", "OperationalError")
                   /\ UNCHANGED dias

\* the open day of an active cycle with the greatest id
DiaActualApi ==
    {d \in DiaIds : dias[d].estado = "abierto" /\ dias[d].ciclo_id \in Activos}

\* POST /api/operaciones/registrar-venta. The cost is read from
\* dia['tasa_compra']; the vault is neither read nor written.
ApiRegistrarVenta(cantidad, precio_venta) ==
    /\ UNCHANGED <<ciclos, dias, compras, boveda_ciclo, config, pc, loc, historia>>
    /\ IF DiaActualApi = {}
       THEN /\ ultimo' = Resultado("api_registrar_venta", "no_hay_dia_activo")
            /\ UNCHANGED ventas
       ELSE IF "tasa_compra" \in ColumnasDias
       THEN LET d == Max(DiaActualApi)
                monto_bruto == QMul(cantidad, precio_venta)
                comision == QMul(monto_bruto, QDiv(config.comision_default, QInt(100)))
                costo == QMul(cantidad, dias[d].tasa_compra)
            IN /\ Len(ventas) < MaxVentas
               /\ ventas' = Append(ventas,
                                   [dia_id |-> d, cripto_id |-> dias[d].cripto_operada_id,
                                    cantidad |-> cantidad, precio_unitario |-> precio_venta,
                                    costo_total |-> costo, monto_venta |-> monto_bruto,
                                    comision |-> comision,
                                    efectivo_recibido |-> QSub(monto_bruto, comision),
                                    ganancia_bruta |-> QSub(monto_bruto, costo),
                                    ganancia_neta |-> QSub(QSub(monto_bruto, comision), costo)])
               /\ ultimo' = Resultado("api_registrar_venta", "ok")
       ELSE /\ ultimo' = Resultado("api_registrar_venta", "IndexError")
            /\ UNCHANGED ventas

\* POST /api/operaciones/cerrar-dia: the open day with the greatest id
ApiCerrarDia ==
    /\ UNCHANGED <<ventas, compras, boveda_ciclo, config, pc, loc, historia>>
    /\ LET abiertos == {d \in DiaIds : dias[d].estado = "abierto"} IN
       IF abiertos = {}
       THEN /\ ultimo' = Resultado("api_cerrar_dia", "no_hay_dia_activo")
            /\ UNCHANGED <<dias, ciclos>>
       ELSE LET d == Max(abiertos)
                c == dias[d].ciclo_id
            IN /\ dias' = [dias EXCEPT ![d] =
                             [@ EXCEPT !.capital_final = Sumar(d, "efectivo_recibido"),
                                       !.efectivo_recibido = Sumar(d, "efectivo_recibido"),
                                       !.comisiones_pagadas = Sumar(d, "comision"),
                                       !.ganancia_neta = Sumar(d, "ganancia_neta"),
                                       !.estado = "cerrado"]]
               /\ ciclos' = [ciclos EXCEPT
                               ![c].dias_operados = @ + 1,
                               ![c].ganancia_total = QAdd(@, Sumar(d, "ganancia_neta"))]
               /\ ultimo' = Resultado("api_cerrar_dia", "ok")

\* ------------------------------------------------------------------------
\* Closing a cycle
\* ------------------------------------------------------------------------
\* (ganancia / inversion * 100) if inversion > 0 else 0, as both closing
\* operations write it inline
RoiEnLinea(ganancia, inversion) ==
    IF QLt(Zero, inversion) THEN QMul(QDiv(ganancia, inversion), QInt(100))
    ELSE Zero

\* POST /api/ciclos/finalizar: no look at the days
ApiFinalizarCicloActual ==
    /\ UNCHANGED <<dias, ventas, compras, boveda_ciclo, config, pc, loc, historia>>
    /\ IF Activos = {}
       THEN /\ ultimo' = Resultado("api_finalizar_ciclo", "no_hay_ciclo_activo")
            /\ UNCHANGED ciclos
       ELSE \E c \in Activos :
              /\ ciclos' = [ciclos EXCEPT ![c] =
                              [@ EXCEPT !.estado = "cerrado",
                                        !.capital_final = QAdd(ciclos[c].inversion_inicial,
                                                               ciclos[c].ganancia_total),
                                        !.roi_total = RoiEnLinea(ciclos[c].ganancia_total,
                                                                 ciclos[c].inversion_inicial)]]
              /\ ultimo' = Resultado("api_finalizar_ciclo", "ok")

\* modules/ciclos.py cerrar_ciclo from menu_ciclos option 3: the reads
CerrarCicloLee(p, confirmar) ==
    /\ pc[p] = "menu"
    /\ UNCHANGED <<tablas, historia>>
    /\ IF Activos = {}
       THEN /\ UNCHANGED <<pc, loc>>
            /\ ultimo' = Resultado("cerrar_ciclo", "no_hay_ciclo_activo")
       ELSE LET c == Max(Activos) IN
            IF Abiertos(c) # {}
            THEN /\ UNCHANGED <<pc, loc>>
                 /\ ultimo' = Resultado("cerrar_ciclo", "hay_un_dia_abierto")
            ELSE IF ~confirmar
            THEN /\ UNCHANGED <<pc, loc>>
                 /\ ultimo' = Resultado("cerrar_ciclo", "cancelado")
            ELSE /\ loc' = [loc EXCEPT
                              ![p].ciclo_id = c,
                              ![p].numero_dia = Cardinality(DiasCerrados(c)),
                              ![p].calc =
                                 [ganancia_total |->
                                    QSum([d \in DiaIds |-> dias[d].ganancia_neta], DiasCerrados(c)),
                                  capital_final |-> CapitalBoveda(c),
                                  roi |-> RoiEnLinea(QSum([d \in DiaIds |-> dias[d].ganancia_neta],
                                                          DiasCerrados(c)),
                                                     ciclos[c].inversion_inicial)]]
                 /\ Ir(p, "cc_actualiza")
                 /\ ultimo' = Resultado("cerrar_ciclo", "confirmado")

\* for comparison with CerrarCicloActualiza: the UPDATE without estado
CerrarCicloActualizaSinEstado(p) ==
    /\ pc[p] = "cc_actualiza"
    /\ UNCHANGED <<dias, ventas, compras, boveda_ciclo, config, historia>>
    /\ ciclos' = [ciclos EXCEPT ![loc[p].ciclo_id] =
                    [@ EXCEPT !.dias_operados = loc[p].numero_dia,
                              !.ganancia_total = loc[p].calc.ganancia_total,
                              !.capital_final = loc[p].calc.capital_final,
                              !.roi_total = loc[p].calc.roi]]
    /\ AlMenu(p)
    /\ ultimo' = Resultado("cerrar_ciclo", "ok")

\* cerrar_ciclo: UPDATE ciclos SET estado = 'cerrado', ...
CerrarCicloActualiza(p) ==
    /\ pc[p] = "cc_actualiza"
    /\ UNCHANGED <<dias, ventas, compras, boveda_ciclo, config, historia>>
    /\ ciclos' = [ciclos EXCEPT ![loc[p].ciclo_id] =
                    [@ EXCEPT !.estado = "cerrado",
                              !.dias_operados = loc[p].numero_dia,
                              !.ganancia_total = loc[p].calc.ganancia_total,
                              !.capital_final = loc[p].calc.capital_final,
                              !.roi_total = loc[p].calc.roi]]
    /\ AlMenu(p)
    /\ ultimo' = Resultado("cerrar_ciclo", "ok")

\* ------------------------------------------------------------------------
\* modules/ciclos.py extender_ciclo, from menu_ciclos option 4
\* ------------------------------------------------------------------------
\* datetime.strptime(texto, '%Y-%m-%d'): the text of a datetime has
\* unconverted data left and raises ValueError
strptime(texto) == IF texto = "AAAA-MM-DD" THEN "fecha" ELSE "ValueError"

\* the numbers of days the operator types in option 4 of menu_ciclos
DiasAdicionales == {0, 1, 2}
MaxDiasPlanificados == 33

\* menu_ciclos option 4: obtener_ciclo_activo()
ExtenderCicloMenu(p) ==
    /\ pc[p] = "menu"
    /\ UNCHANGED <<tablas, historia>>
    /\ IF Activos = {}
       THEN /\ UNCHANGED <<pc, loc>>
            /\ ultimo' = Resultado("extender_ciclo", "no_hay_ciclo_activo")
       ELSE /\ loc' = [loc EXCEPT ![p].ciclo_id = Max(Activos)]
            /\ Ir(p, "ec_dias")
            /\ ultimo' = Resultado("extender_ciclo", "ciclo_activo")

\* extender_ciclo(ciclo_id, dias_adicionales) up to the UPDATE: the check of
\* dias_adicionales, obtener_ciclo, the new duration and the parse of
\* fecha_inicio; the ValueError of the parse ends the call (menu_ciclos
\* catches it)
ExtenderCicloLee(p, dias_adicionales) ==
    /\ pc[p] = "ec_dias"
    /\ UNCHANGED <<tablas, historia>>
    /\ IF dias_adicionales < 1
       THEN /\ AlMenu(p)
            /\ ultimo' = Resultado("extender_ciclo", "dias_invalidos")
       ELSE IF strptime(ciclos[loc[p].ciclo_id].fecha_inicio) = "ValueError"
       THEN /\ AlMenu(p)
            /\ ultimo' = Resultado("extender_ciclo", "ValueError")
       ELSE /\ ciclos[loc[p].ciclo_id].dias_planificados + dias_adicionales <= MaxDiasPlanificados
            /\ loc' = [loc EXCEPT ![p].calc =
                         [dias_adicionales |-> dias_adicionales,
                          nueva_duracion |-> ciclos[loc[p].ciclo_id].dias_planificados
                                             + dias_adicionales]]
            /\ Ir(p, "ec_actualiza")
            /\ ultimo' = Resultado("extender_ciclo", "leido")

\* extender_ciclo: UPDATE ciclos SET dias_planificados = ?, fecha_fin_estimada = ?
ExtenderCicloActualiza(p) ==
    /\ pc[p] = "ec_actualiza"
    /\ UNCHANGED <<dias, ventas, compras, boveda_ciclo, config, historia>>
    /\ ciclos' = [ciclos EXCEPT ![loc[p].ciclo_id].dias_planificados =
                                  loc[p].calc.nueva_duracion]
    /\ AlMenu(p)
    /\ ultimo' = Resultado("extender_ciclo", "ok")

\* ------------------------------------------------------------------------
\* modules/boveda.py: funding and transferring from the console
\* ------------------------------------------------------------------------
\* fondear_boveda up to the confirmation: the active cycle, or crear_ciclo
FondearBoveda(p, crear, cripto, monto_usd, tasa) ==
    /\ pc[p] = "menu"
    /\ UNCHANGED <<dias, ventas, compras, boveda_ciclo, config, historia>>
    /\ IF Activos = {} /\ ~crear
       THEN /\ UNCHANGED <<ciclos, pc, loc>>
            /\ ultimo' = Resultado("fondear_boveda", "no_hay_ciclo_activo")
       ELSE /\ IF Activos = {}
               THEN CrearCicloInserta(15)
               ELSE /\ UNCHANGED ciclos
                    /\ ultimo' = Resultado("fondear_boveda", "confirmado")
            /\ loc' = [loc EXCEPT
                         ![p].ciclo_id = IF Activos = {} THEN Len(ciclos) + 1 ELSE Max(Activos),
                         ![p].cripto_id = cripto,
                         ![p].capital = monto_usd,
                         ![p].tasa = tasa,
                         ![p].cantidad = QDiv(monto_usd, tasa)]
            /\ Ir(p, "fb_compra")

\* registrar_compra: INSERT INTO compras and the vault row, one transaction
RegistrarCompra(p) ==
    /\ pc[p] = "fb_compra"
    /\ Len(compras) < MaxCompras
    /\ UNCHANGED <<ciclos, dias, ventas, config>>
    /\ LET k == <<loc[p].ciclo_id, loc[p].cripto_id>> IN
       /\ Cabe(k, loc[p].cantidad)
       /\ compras' = Append(compras,
                            [ciclo_id |-> loc[p].ciclo_id, cripto_id |-> loc[p].cripto_id,
                             cantidad |-> loc[p].cantidad, monto_usd |-> loc[p].capital,
                             tasa |-> loc[p].tasa])
       /\ boveda_ciclo' = Poner(boveda_ciclo, k, Fondeada(k, loc[p].cantidad, loc[p].tasa))
       /\ depositos' = Anotar(k, loc[p].cantidad, loc[p].tasa)
       /\ UNCHANGED descontadas
    /\ AlMenu(p)
    /\ ultimo' = Resultado("registrar_compra", "ok")

\* for comparison with CantidadExcede: a transfer that takes any quantity
CantidadExcedeSinVerificar(k, cantidad) == FALSE

\* `cantidad > cripto_seleccionada['cantidad']` in transferir_capital,
\* `cantidad_transferir > boveda['cantidad']` in transferir_capital_a_ciclo
CantidadExcede(k, cantidad) == QLt(boveda_ciclo[k].cantidad, cantidad)

\* transferir_capital up to the confirmation: the rows of the other cycles
\* with cantidad > 0, the row chosen, the quantity typed (or 'todo')
TransferirCapitalLee(p, k, cantidad, todo) ==
    /\ pc[p] = "menu"
    /\ UNCHANGED <<tablas, historia>>
    /\ IF Activos = {}
       THEN /\ UNCHANGED <<pc, loc>>
            /\ ultimo' = Resultado("transferir_capital", "no_hay_ciclo_activo")
       ELSE LET destino == Max(Activos)
                capital_otros == {x \in Posiciones :
                                    x[1] # destino /\ QLt(Zero, boveda_ciclo[x].cantidad)}
            IN IF capital_otros = {}
               THEN /\ UNCHANGED <<pc, loc>>
                    /\ ultimo' = Resultado("transferir_capital", "no_hay_capital_en_otros_ciclos")
               ELSE /\ k \in capital_otros
                    /\ IF ~todo /\ CantidadExcede(k, cantidad)
                       THEN /\ UNCHANGED <<pc, loc>>
                            /\ ultimo' = Resultado("transferir_capital", "cantidad_invalida")
                       ELSE /\ loc' = [loc EXCEPT
                                         ![p].ciclo_id = destino,
                                         ![p].ciclo_origen = k[1],
                                         ![p].cripto_id = k[2],
                                         ![p].precio = boveda_ciclo[k].precio_promedio,
                                         ![p].cantidad = IF todo THEN boveda_ciclo[k].cantidad
                                                         ELSE cantidad]
                            /\ Ir(p, "tc_transaccion")
                            /\ ultimo' = Resultado("transferir_capital", "confirmado")

\* the statements inside `with db.transaction() as conn`: the debit of the
\* source row and the credit of the destination row
DebitoYCredito(origen, destino, cantidad, precio) ==
    LET debitada == IF origen \in Posiciones
                    THEN Poner(boveda_ciclo, origen,
                               [boveda_ciclo[origen] EXCEPT !.cantidad = QSub(@, cantidad)])
                    ELSE boveda_ciclo
    IN Poner(debitada, destino,
             IF destino \in Posiciones
             THEN [cantidad |-> QAdd(debitada[destino].cantidad, cantidad),
                   precio_promedio |-> PromedioEnLinea(debitada[destino].cantidad,
                                                      debitada[destino].precio_promedio,
                                                      cantidad, precio)]
             ELSE [cantidad |-> cantidad, precio_promedio |-> precio])

\* for comparison with TransferirCapitalTransaccion: a transaction step
\* that commits the debit of the source row and stops before the credit
TransferirCapitalSoloDebito(p) ==
    /\ pc[p] = "tc_transaccion"
    /\ UNCHANGED <<ciclos, dias, ventas, compras, config>>
    /\ LET origen == <<loc[p].ciclo_origen, loc[p].cripto_id>> IN
       /\ origen \in Posiciones
       /\ boveda_ciclo' = Poner(boveda_ciclo, origen,
                                [boveda_ciclo[origen] EXCEPT !.cantidad = QSub(@, loc[p].cantidad)])
       /\ depositos' = Tocar(origen)
    /\ UNCHANGED descontadas
    /\ ultimo' = Resultado("transferir_capital", "AttributeError")
    /\ AlMenu(p)

\* the transaction of transferir_capital: `with db.transaction() as conn`
\* raises AttributeError before any statement of the block runs
TransferirCapitalTransaccion(p) ==
    /\ pc[p] = "tc_transaccion"
    /\ UNCHANGED <<ciclos, dias, ventas, compras, config>>
    /\ IF "transaction" \in DatabaseManager
       THEN /\ boveda_ciclo' = DebitoYCredito(<<loc[p].ciclo_origen, loc[p].cripto_id>>,
                                              <<loc[p].ciclo_id, loc[p].cripto_id>>,
                                              loc[p].cantidad, loc[p].precio)
            /\ depositos' = Tocar(<<loc[p].ciclo_origen, loc[p].cripto_id>>)
            /\ UNCHANGED descontadas
            /\ ultimo' = Resultado("transferir_capital", "ok")
       ELSE /\ UNCHANGED <<boveda_ciclo, historia>>
            /\ ultimo' = Resultado("transferir_capital", "AttributeError")
    /\ AlMenu(p)

\* POST /api/ciclos/transferir-capital: the row of the ACTIVE cycle is read
\* and its value is added to ciclos.inversion_inicial; no row is written
ApiTransferirCapitalACiclo(cripto_id, cantidad, transferir_todo) ==
    /\ UNCHANGED <<dias, ventas, compras, boveda_ciclo, config, pc, loc, historia>>
    /\ IF Activos = {}
       THEN /\ ultimo' = Resultado("api_transferir_capital", "no_hay_ciclo_activo")
            /\ UNCHANGED ciclos
       ELSE \E ciclo_id \in Activos :
              LET k == <<ciclo_id, cripto_id>> IN
              IF k \notin Posiciones
              THEN /\ ultimo' = Resultado("api_transferir_capital", "no_encontrada")
                   /\ UNCHANGED ciclos
              ELSE LET cantidad_transferir == IF transferir_todo THEN boveda_ciclo[k].cantidad
                                              ELSE cantidad
                   IN IF CantidadExcede(k, cantidad_transferir)
                      THEN /\ ultimo' = Resultado("api_transferir_capital", "cantidad_insuficiente")
                           /\ UNCHANGED ciclos
                      ELSE /\ QLe(QAdd(ciclos[ciclo_id].inversion_inicial,
                                       QMul(cantidad_transferir, boveda_ciclo[k].precio_promedio)),
                                  QInt(MaxInversion))
                           /\ ciclos' = [ciclos EXCEPT ![ciclo_id].inversion_inicial =
                                           QAdd(@, QMul(cantidad_transferir,
                                                        boveda_ciclo[k].precio_promedio))]
                           /\ ultimo' = Resultado("api_transferir_capital", "ok")

\* ------------------------------------------------------------------------
\* modules/mantenimiento.py: menu_mantenimiento options 8 and 6
\* ------------------------------------------------------------------------
\* the rows of f outside S
Sin(f, S) == [x \in (DOMAIN f) \ S |-> f[x]]

\* the DELETE statements of limpiar_datos_ciclos_antiguos, in their order:
\* ventas of the days of the cycle, dias, compras, boveda_ciclo, ciclos
EliminarCiclo(ciclo_id) ==
    /\ ventas' = Sin(ventas, {v \in DOMAIN ventas : ventas[v].dia_id \in DiasDe(ciclo_id)})
    /\ dias' = Sin(dias, DiasDe(ciclo_id))
    /\ compras' = Sin(compras, {c \in DOMAIN compras : compras[c].ciclo_id = ciclo_id})
    /\ boveda_ciclo' = Sin(boveda_ciclo, {k \in Posiciones : k[1] = ciclo_id})
    /\ ciclos' = Sin(ciclos, {ciclo_id})
    /\ depositos' = Sin(depositos, {k \in DOMAIN depositos : k[1] = ciclo_id})
    /\ UNCHANGED <<config, descontadas>>

\* limpiar_datos_ciclos_antiguos up to the transaction: the closed cycles
\* are listed, the operator types an id (0 cancels; the id typed is not
\* compared with the list) and the word ELIMINAR; crear_backup copies
\* files only
LimpiarDatosCiclosAntiguosLee(p, ciclo_id, confirmar) ==
    /\ pc[p] = "menu"
    /\ UNCHANGED <<tablas, historia>>
    /\ IF Cerrados = {}
       THEN /\ UNCHANGED <<pc, loc>>
            /\ ultimo' = Resultado("limpiar_datos_ciclos_antiguos", "no_hay_ciclos_cerrados")
       ELSE IF ciclo_id = 0 \/ ~confirmar
       THEN /\ UNCHANGED <<pc, loc>>
            /\ ultimo' = Resultado("limpiar_datos_ciclos_antiguos", "cancelado")
       ELSE /\ loc' = [loc EXCEPT ![p].ciclo_id = ciclo_id]
            /\ Ir(p, "lc_transaccion")
            /\ ultimo' = Resultado("limpiar_datos_ciclos_antiguos", "confirmado")

\* for comparison with LimpiarDatosCiclosAntiguosTransaccion: a transaction
\* step whose DELETE statements run
LimpiarDatosCiclosAntiguosElimina(p) ==
    /\ pc[p] = "lc_transaccion"
    /\ EliminarCiclo(loc[p].ciclo_id)
    /\ ultimo' = Resultado("limpiar_datos_ciclos_antiguos", "ok")
    /\ AlMenu(p)

\* the transaction of limpiar_datos_ciclos_antiguos: `with db.transaction()
\* as conn` raises AttributeError before any DELETE runs, and the except
\* branch returns False
LimpiarDatosCiclosAntiguosTransaccion(p) ==
    /\ pc[p] = "lc_transaccion"
    /\ IF "transaction" \in DatabaseManager
       THEN /\ EliminarCiclo(loc[p].ciclo_id)
            /\ ultimo' = Resultado("limpiar_datos_ciclos_antiguos", "ok")
       ELSE /\ UNCHANGED <<tablas, historia>>
            /\ ultimo' = Resultado("limpiar_datos_ciclos_antiguos", "AttributeError")
    /\ AlMenu(p)

\* reparar_inconsistencias: the days without a cycle and the sales without
\* a day are deleted and the negative quantities set to 0, all inside
\* `with db.transaction() as conn`
RepararInconsistencias(p) ==
    /\ pc[p] = "menu"
    /\ UNCHANGED <<ciclos, compras, config, pc, loc, historia>>
    /\ IF "transaction" \in DatabaseManager
       THEN LET huerfanos == {d \in DiaIds : dias[d].ciclo_id \notin CicloIds} IN
            /\ dias' = Sin(dias, huerfanos)
            /\ ventas' = Sin(ventas, {v \in DOMAIN ventas :
                                        ventas[v].dia_id \notin DiaIds \ huerfanos})
            /\ boveda_ciclo' = [k \in Posiciones |->
                                  IF QLt(boveda_ciclo[k].cantidad, Zero)
                                  THEN [boveda_ciclo[k] EXCEPT !.cantidad = Zero]
                                  ELSE boveda_ciclo[k]]
            /\ ultimo' = Resultado("reparar_inconsistencias", "ok")
       ELSE /\ UNCHANGED <<dias, ventas, boveda_ciclo>>
            /\ ultimo' = Resultado("reparar_inconsistencias", "AttributeError")

\* ------------------------------------------------------------------------
\* modules/configuracion.py
\* ------------------------------------------------------------------------
\* the commissions the operator types in the configuration menu
ComisionesNuevas == {ComisionPorDefecto, QInt(50), QInt(101)}

\* modificar_comision_manual: the range check, then UPDATE config SET
\* comision_default = ? (the SELECT before it only feeds the log)
ModificarComisionManual(p, nueva_comision) ==
    /\ pc[p] = "menu"
    /\ UNCHANGED <<ciclos, dias, ventas, compras, boveda_ciclo, pc, loc, historia>>
    /\ IF QLt(nueva_comision, Zero) \/ QLt(QInt(100), nueva_comision)
       THEN /\ UNCHANGED config
            /\ ultimo' = Resultado("modificar_comision_manual", "comision_invalida")
       ELSE /\ config' = [config EXCEPT !.comision_default = nueva_comision]
            /\ ultimo' = Resultado("modificar_comision_manual", "ok")

\* ------------------------------------------------------------------------
\* core/calculos.py: the calculator called on its own
\* ------------------------------------------------------------------------
\* Calculadora.calcular_roi: 0 for inversion <= 0, else the percentage
\* rounded to 2 decimals
calcular_roi(ganancia, inversion) ==
    IF QLe(inversion, Zero) THEN Zero
    ELSE Round(QMul(QDiv(ganancia, inversion), QInt(100)), 2)

\* the arguments calcular_roi is called with
GananciasRoi == {QInt(g) : g \in -2..8}
InversionesRoi == {QInt(i) : i \in -1..8}

\* roi = calc.calcular_roi(ganancia, inversion)
CalcularRoi(p, ganancia, inversion) ==
    /\ pc[p] = "menu"
    /\ UNCHANGED <<tablas, historia, pc>>
    /\ loc' = [loc EXCEPT ![p].calc = [ganancia |-> ganancia, inversion |-> inversion,
                                       roi |-> calcular_roi(ganancia, inversion)]]
    /\ ultimo' = Resultado("calcular_roi", "ok")

\* Calculadora.calcular_precio_sugerido without the guard on costo_promedio
PrecioSugeridoSinValidarCosto(costo_promedio, ganancia_objetivo_pct, comision_pct) ==
    LET factor == QDiv(QAdd(comision_pct, ganancia_objetivo_pct), QInt(100)) IN
    IF QLe(QInt(1), factor) THEN Zero
    ELSE Round(QDiv(costo_promedio, QSub(QInt(1), factor)), 4)

\* Calculadora.calcular_precio_sugerido
calcular_precio_sugerido(costo_promedio, ganancia_objetivo_pct, comision_pct) ==
    LET factor == QDiv(QAdd(comision_pct, ganancia_objetivo_pct), QInt(100)) IN
    IF QLe(costo_promedio, Zero) THEN Zero
    ELSE IF QLe(QInt(1), factor) THEN Zero
    ELSE Round(QDiv(costo_promedio, QSub(QInt(1), factor)), 4)

\* the arguments calcular_precio_sugerido is called with
CostosPromedio == {QInt(c) : c \in -1..3} \cup {Q(1, 100)}
GananciasObjetivo == {QInt(2), QInt(50), QInt(100), QInt(120)}
ComisionesPct == {Zero, ComisionPorDefecto, QInt(1)}

\* precio_sugerido = calc.calcular_precio_sugerido(costo, ganancia_objetivo, comision)
CalcularPrecioSugerido(p, costo_promedio, ganancia_objetivo_pct, comision_pct) ==
    /\ pc[p] = "menu"
    /\ UNCHANGED <<tablas, historia, pc>>
    /\ loc' = [loc EXCEPT ![p].calc =
                 [costo_promedio |-> costo_promedio,
                  ganancia_objetivo_pct |-> ganancia_objetivo_pct,
                  comision_pct |-> comision_pct,
                  precio_sugerido |-> calcular_precio_sugerido(costo_promedio,
                                                               ganancia_objetivo_pct,
                                                               comision_pct)]]
    /\ ultimo' = Resultado("calcular_precio_sugerido", "ok")

\* Calculadora.calcular_ganancia_neta_estimada: 0 for a cost or a price
\* <= 0, else the net percentage over the cost, rounded to 2 decimals
calcular_ganancia_neta_estimada(costo_promedio, precio_venta, comision_pct) ==
    IF QLe(costo_promedio, Zero) \/ QLe(precio_venta, Zero) THEN Zero
    ELSE LET comision_decimal == QDiv(comision_pct, QInt(100))
             efectivo_recibido == QMul(precio_venta, QSub(QInt(1), comision_decimal))
             ganancia_neta == QSub(efectivo_recibido, costo_promedio)
         IN Round(QMul(QDiv(ganancia_neta, costo_promedio), QInt(100)), 2)

\* modulo_operador after the suggestion: the operator publishes the
\* suggested price or types another one, and the margin is estimated with
\* the same cost and commission
CalcularGananciaNetaEstimada(p, publica_sugerido, precio_tecleado) ==
    /\ pc[p] = "menu"
    /\ "precio_sugerido" \in DOMAIN loc[p].calc
    /\ UNCHANGED <<tablas, historia, pc>>
    /\ LET c == loc[p].calc
           precio_venta == IF publica_sugerido THEN c.precio_sugerido ELSE precio_tecleado
       IN loc' = [loc EXCEPT ![p].calc =
                    [costo_promedio |-> c.costo_promedio,
                     ganancia_objetivo_pct |-> c.ganancia_objetivo_pct,
                     comision_pct |-> c.comision_pct,
                     precio_sugerido |-> c.precio_sugerido,
                     precio_venta |-> precio_venta,
                     ganancia_neta_estimada |->
                       calcular_ganancia_neta_estimada(c.costo_promedio, precio_venta,
                                                       c.comision_pct)]]
    /\ ultimo' = Resultado("calcular_ganancia_neta_estimada", "ok")

\* ------------------------------------------------------------------------
\* The system
\* ------------------------------------------------------------------------
TasasQ == {QInt(t) : t \in Tasas}
CantidadesQ == {QInt(c) : c \in Cantidades}

Rest ==
    \/ \E capital \in CapitalesIniciales : ApiIniciarNuevoCiclo(capital)
    \/ ApiFinalizarCicloActual
    \/ \E cripto \in Criptos, monto \in Montos, precio \in TasasQ :
         ApiAgregarCapital(cripto, monto, precio)
    \/ \E cripto \in Criptos, cantidad \in CantidadesQ : ApiRetirarCapital(cripto, cantidad)
    \/ \E cripto \in Criptos, cantidad \in CantidadesQ, todo \in BOOLEAN :
         ApiTransferirCapitalACiclo(cripto, cantidad, todo)
    \/ \E cripto \in Criptos, capital \in Montos : ApiIniciarDia(cripto, capital)
    \/ \E cantidad \in CantidadesQ, precio \in PreciosVenta : ApiRegistrarVenta(cantidad, precio)
    \/ ApiCerrarDia

Consola(p) ==
    \/ \E dias_duracion \in DiasDuracion, continuar \in BOOLEAN :
         CrearCiclo(p, dias_duracion, continuar)
    \/ \E confirmar \in BOOLEAN : CerrarCicloLee(p, confirmar)
    \/ CerrarCicloActualiza(p)
    \/ \E crear \in BOOLEAN, cripto \in Criptos, monto \in Montos, tasa \in TasasQ :
         FondearBoveda(p, crear, cripto, monto, tasa)
    \/ RegistrarCompra(p)
    \/ \E k \in Posiciones, cantidad \in CantidadesQ, todo \in BOOLEAN :
         TransferirCapitalLee(p, k, cantidad, todo)
    \/ TransferirCapitalTransaccion(p)
    \/ \E c \in CicloIds : IniciarDiaVerifica(p, c)
    \/ IniciarDiaNumero(p)
    \/ IniciarDiaCapital(p)
    \/ IniciarDiaInserta(p)
    \/ \E dia_id \in 1..MaxDias, confirmar \in BOOLEAN : CerrarDiaVerifica(p, dia_id, confirmar)
    \/ CerrarDiaCapital(p)
    \/ CerrarDiaTotales(p)
    \/ CerrarDiaActualizaDia(p)
    \/ CerrarDiaActualizaCiclo(p)
    \/ \E ciclo_id \in 0..MaxCiclos, confirmar \in BOOLEAN :
         LimpiarDatosCiclosAntiguosLee(p, ciclo_id, confirmar)
    \/ LimpiarDatosCiclosAntiguosTransaccion(p)
    \/ RepararInconsistencias(p)
    \/ \E nueva_comision \in ComisionesNuevas : ModificarComisionManual(p, nueva_comision)
    \/ ExtenderCicloMenu(p)
    \/ \E dias_adicionales \in DiasAdicionales : ExtenderCicloLee(p, dias_adicionales)
    \/ ExtenderCicloActualiza(p)

Operador(p) ==
    \/ ModuloOperador(p)
    \/ \E continuar \in BOOLEAN : ModuloOperadorDiaAbierto(p, continuar)
    \/ ModuloOperadorCapital(p)
    \/ IniciarDiaOperacionNumero(p)
    \/ IniciarDiaOperacionInserta(p)
    \/ \E cripto \in Criptos : ModuloOperadorCriptos(p, cripto)
    \/ ModuloOperadorConfig(p)
    \/ \E precio \in PreciosVenta : ModuloOperadorPrecio(p, precio)
    \/ \E cantidad \in CantidadesVendidas : ModuloOperadorVenta(p, cantidad)
    \/ RegistrarVentaManualLee(p)
    \/ RegistrarVentaManualInserta(p)
    \/ RegistrarVentaManualBoveda(p)
    \/ \E otra \in BOOLEAN : RegistrarVentaManualDia(p, otra)
    \/ \E cerrar \in BOOLEAN : ModuloOperadorCierre(p, cerrar)
    \/ \E confirmar \in BOOLEAN : CerrarDiaManual(p, confirmar)
    \/ \E confirmar \in BOOLEAN : CerrarDiaOperacionLee(p, confirmar)
    \/ CerrarDiaOperacionDia(p)
    \/ \E interes \in BOOLEAN : CerrarDiaOperacionCiclo(p, interes)
    \/ AplicarInteresManual(p)
    \/ \E cripto \in Criptos, tasa \in TasasQ : AplicarInteresCompuestoLee(p, cripto, tasa)
    \/ AplicarInteresCompuestoCompra(p)
    \/ AplicarInteresCompuestoBoveda(p)

Biblioteca ==
    \E d \in DiaIds, cripto \in Criptos, cantidad \in CantidadesQ, precio \in PreciosVenta :
      RegistrarVenta(d, cripto, cantidad, precio)

Calculos(p) ==
    \/ \E ganancia \in GananciasRoi, inversion \in InversionesRoi :
         CalcularRoi(p, ganancia, inversion)
    \/ \E costo \in CostosPromedio, objetivo \in GananciasObjetivo, comision \in ComisionesPct :
         CalcularPrecioSugerido(p, costo, objetivo, comision)
    \/ \E publica_sugerido \in BOOLEAN, precio \in PreciosVenta :
         CalcularGananciaNetaEstimada(p, publica_sugerido, precio)

Next ==
    \/ Rest
    \/ \E p \in Procs : Consola(p)
    \/ \E p \in Procs : Operador(p)
    \/ \E p \in Procs : Calculos(p)
    \/ Biblioteca

Spec == Init /\ [][Next]_vars

\* ------------------------------------------------------------------------
\* Parts of the system, explored one at a time
\* ------------------------------------------------------------------------
\* The database after one POST /api/boveda/agregar-capital of 2 USD at
\* price 1 on the empty database: cycle 1 created and active, one vault row.
InitFondeado ==
    /\ ciclos = <<NuevoCiclo(30, QInt(2))>>
    /\ dias = <<>>
    /\ ventas = <<>>
    /\ compras = <<>>
    /\ boveda_ciclo = Poner(<<>>, <<1, 1>>, [cantidad |-> QInt(2), precio_promedio |-> QInt(1)])
    /\ config = [comision_default |-> ComisionInicial]
    /\ pc = [p \in Procs |-> "menu"]
    /\ loc = [p \in Procs |-> LocInicial]
    /\ ultimo = Resultado("api_agregar_capital", "ok")
    /\ depositos = Poner(<<>>, <<1, 1>>, [q |-> QInt(2), v |-> QInt(2), solo |-> TRUE])
    /\ descontadas = {}

\* creating and closing cycles, from the REST routes and from two consoles
NextCiclos ==
    \/ \E capital \in CapitalesIniciales : ApiIniciarNuevoCiclo(capital)
    \/ ApiFinalizarCicloActual
    \/ \E cripto \in Criptos, monto \in Montos, precio \in TasasQ :
         ApiAgregarCapital(cripto, monto, precio)
    \/ \E p \in Procs, dias_duracion \in DiasDuracion, continuar \in BOOLEAN :
         CrearCiclo(p, dias_duracion, continuar)
    \/ \E p \in Procs, confirmar \in BOOLEAN : CerrarCicloLee(p, confirmar)
    \/ \E p \in Procs : CerrarCicloActualiza(p)

SpecCiclos == Init /\ [][NextCiclos]_vars

\* C1: in every reachable state at most one cycle has estado = 'activo',
\* whichever of the cycle-creating operations ran and in whichever order
C1_UnSoloCicloActivo == Cardinality(Activos) <= 1

\* opening days: modulo_operador up to the new day and dias.iniciar_dia on
\* two consoles, the REST routes that open and close a day
NextDias ==
    \/ \E p \in Procs : ModuloOperador(p)
    \/ \E p \in Procs, continuar \in BOOLEAN : ModuloOperadorDiaAbierto(p, continuar)
    \/ \E p \in Procs : ModuloOperadorCapital(p)
    \/ \E p \in Procs : IniciarDiaOperacionNumero(p)
    \/ \E p \in Procs : IniciarDiaOperacionInserta(p)
    \/ \E p \in Procs, c \in CicloIds : IniciarDiaVerifica(p, c)
    \/ \E p \in Procs : IniciarDiaNumero(p)
    \/ \E p \in Procs : IniciarDiaCapital(p)
    \/ \E p \in Procs : IniciarDiaInserta(p)
    \/ \E cripto \in Criptos, capital \in Montos : ApiIniciarDia(cripto, capital)
    \/ ApiCerrarDia

SpecDias == InitFondeado /\ [][NextDias]_vars

\* C2: in every reachable state every cycle has at most one day with
\* estado = 'abierto', also when two calls that open a day interleave
\* between their check for an open day and their INSERT
C2_UnSoloDiaAbierto == \A c \in CicloIds : Cardinality(Abiertos(c)) <= 1

\* The database after agregar-capital (2 USD at price 1) and one completed
\* dias.iniciar_dia(1): cycle 1 active, day 1 open, one vault row.
InitDiaAbierto ==
    /\ ciclos = <<NuevoCiclo(30, QInt(2))>>
    /\ dias = <<NuevoDia(1, 1, QInt(2))>>
    /\ ventas = <<>>
    /\ compras = <<>>
    /\ boveda_ciclo = Poner(<<>>, <<1, 1>>, [cantidad |-> QInt(2), precio_promedio |-> QInt(1)])
    /\ config = [comision_default |-> ComisionInicial]
    /\ pc = [p \in Procs |-> "menu"]
    /\ loc = [p \in Procs |-> LocInicial]
    /\ ultimo = Resultado("iniciar_dia", "ok")
    /\ depositos = Poner(<<>>, <<1, 1>>, [q |-> QInt(2), v |-> QInt(2), solo |-> TRUE])
    /\ descontadas = {}

\* selling: the sale loop of modulo_operador on two consoles, the two other
\* entry points that register a sale, and withdrawals from the same row
NextVentas ==
    \/ \E p \in Procs : ModuloOperador(p)
    \/ \E p \in Procs, continuar \in BOOLEAN : ModuloOperadorDiaAbierto(p, continuar)
    \/ \E p \in Procs, cripto \in Criptos : ModuloOperadorCriptos(p, cripto)
    \/ \E p \in Procs : ModuloOperadorConfig(p)
    \/ \E p \in Procs, precio \in PreciosVenta : ModuloOperadorPrecio(p, precio)
    \/ \E p \in Procs, cantidad \in CantidadesVendidas : ModuloOperadorVenta(p, cantidad)
    \/ \E p \in Procs : RegistrarVentaManualLee(p)
    \/ \E p \in Procs : RegistrarVentaManualInserta(p)
    \/ \E p \in Procs : RegistrarVentaManualBoveda(p)
    \/ \E p \in Procs, otra \in BOOLEAN : RegistrarVentaManualDia(p, otra)
    \/ \E p \in Procs : ModuloOperadorCierre(p, FALSE)
    \/ \E cripto \in Criptos, cantidad \in CantidadesQ : ApiRetirarCapital(cripto, cantidad)
    \/ Biblioteca
    \/ \E cantidad \in CantidadesQ, precio \in PreciosVenta : ApiRegistrarVenta(cantidad, precio)

SpecVentas == InitDiaAbierto /\ [][NextVentas]_vars

\* C3: no reachable state, the states between the storage steps of a sale
\* and the states after a failed step included, holds a row of ventas whose
\* quantity has not been subtracted from the vault row of its cycle and asset
C3_TodaVentaDescontada == DOMAIN ventas \subseteq descontadas

\* C4: in every reachable state the quantity of every vault row is >= 0,
\* also when two sales of the same row interleave
C4_CantidadNoNegativa == \A k \in Posiciones : QLe(Zero, boveda_ciclo[k].cantidad)

\* two consoles passed the check of the loop with quantities that fit the
\* row of 2 units one by one and exceed it together; the first was
\* subtracted, the second was refused by the check inside the transaction
C4_DosVentasEntrelazadas ==
    \E p, q \in Procs :
      /\ p # q
      /\ pc[p] = "op_venta"
      /\ ultimo = Resultado("registrar_venta_manual", "cantidad_insuficiente")
      /\ loc[p].venta_id \in DOMAIN ventas \ descontadas
      /\ loc[q].venta_id \in descontadas
      /\ QLe(loc[p].cantidad, QInt(2)) /\ QLe(loc[q].cantidad, QInt(2))
      /\ QLt(QInt(2), QAdd(loc[p].cantidad, loc[q].cantidad))
      /\ <<1, 1>> \in Posiciones
      /\ boveda_ciclo[<<1, 1>>].cantidad = QSub(QInt(2), loc[q].cantidad)

\* C5: when a sale is refused because its quantity exceeds the quantity of
\* the vault row, the row of ventas the call inserted does not exist
\* afterwards (the sales are what they were before the call)
C5_VentaExcesivaSinEfecto ==
    [][\A p \in Procs :
         (pc[p] = "rv_boveda" /\ pc'[p] = "op_venta")
           => loc[p].venta_id \notin DOMAIN ventas']_vars

\* C6: a sale on an open day, of a quantity within the vault row and with a
\* positive average cost, succeeds: one more row of ventas for that day and
\* the vault row lower by exactly the quantity sold
C6_VentaValidaTieneExito ==
    [][\A d \in DiaIds, cripto \in Criptos, cantidad \in CantidadesQ, precio \in PreciosVenta :
         LET k == <<dias[d].ciclo_id, cripto>> IN
         (/\ RegistrarVenta(d, cripto, cantidad, precio)
          /\ dias[d].estado = "abierto"
          /\ k \in Posiciones
          /\ QLt(Zero, boveda_ciclo[k].precio_promedio)
          /\ QLe(cantidad, boveda_ciclo[k].cantidad))
           => /\ Len(ventas') = Len(ventas) + 1
              /\ ventas'[Len(ventas')].dia_id = d
              /\ k \in DOMAIN boveda_ciclo'
              /\ boveda_ciclo'[k].cantidad = QSub(boveda_ciclo[k].cantidad, cantidad)]_vars

\* The database after one sale of 1 unit at price 2 on day 1 and
\* cerrar_dia_operacion: day 1 closed with 1.99 USD of cash, the vault row
\* of cycle 1 down to 1 unit.
InitDiaCerrado ==
    /\ ciclos = <<[NuevoCiclo(30, QInt(2)) EXCEPT !.dias_operados = 1,
                                                  !.ganancia_total = Q(99, 100)]>>
    /\ dias = <<[NuevoDia(1, 1, QInt(2)) EXCEPT !.estado = "cerrado",
                                                !.cripto_operada_id = 1,
                                                !.precio_publicado = QInt(2),
                                                !.capital_final = Q(299, 100),
                                                !.efectivo_recibido = Q(199, 100),
                                                !.comisiones_pagadas = Q(1, 100),
                                                !.ganancia_bruta = QInt(1),
                                                !.ganancia_neta = Q(99, 100)]>>
    /\ ventas = <<[dia_id |-> 1, cripto_id |-> 1, cantidad |-> QInt(1),
                   precio_unitario |-> QInt(2), costo_total |-> QInt(1),
                   monto_venta |-> QInt(2), comision |-> Q(1, 100),
                   efectivo_recibido |-> Q(199, 100), ganancia_bruta |-> QInt(1),
                   ganancia_neta |-> Q(99, 100)]>>
    /\ compras = <<>>
    /\ boveda_ciclo = Poner(<<>>, <<1, 1>>, [cantidad |-> QInt(1), precio_promedio |-> QInt(1)])
    /\ config = [comision_default |-> ComisionInicial]
    /\ pc = [p \in Procs |-> "menu"]
    /\ loc = [p \in Procs |-> LocInicial]
    /\ ultimo = Resultado("cerrar_dia_operacion", "ok")
    /\ depositos = Poner(<<>>, <<1, 1>>, [q |-> QInt(2), v |-> QInt(2), solo |-> FALSE])
    /\ descontadas = {1}

\* depositing: the reinvestment of the cash of a closed day and
\* fondear_boveda on two consoles, and the REST withdrawal that empties a
\* row; every deposit here inserts a row of compras
NextInteres ==
    \/ \E p \in Procs : AplicarInteresManual(p)
    \/ \E p \in Procs, cripto \in Criptos, tasa \in TasasQ :
         AplicarInteresCompuestoLee(p, cripto, tasa)
    \/ \E p \in Procs : AplicarInteresCompuestoCompra(p)
    \/ \E p \in Procs : AplicarInteresCompuestoBoveda(p)
    \/ \E p \in Procs, crear \in BOOLEAN, cripto \in Criptos, monto \in Montos, tasa \in TasasQ :
         FondearBoveda(p, crear, cripto, monto, tasa)
    \/ \E p \in Procs : RegistrarCompra(p)
    \/ \E cripto \in Criptos, cantidad \in CantidadesQ : ApiRetirarCapital(cripto, cantidad)

SpecInteres == InitDiaCerrado /\ [][NextInteres]_vars

\* C7: every vault row that only deposits have touched holds the sum of
\* the deposited quantities, and its precio_promedio is the sum of
\* quantity * cost over those deposits divided by that sum of quantities
C7_PromedioPonderado ==
    \A k \in Posiciones :
      (k \in DOMAIN depositos /\ depositos[k].solo)
        => /\ boveda_ciclo[k].cantidad = depositos[k].q
           /\ QMul(boveda_ciclo[k].precio_promedio, depositos[k].q) = depositos[k].v

\* The database after agregar-capital (2 USD at price 1, which creates
\* cycle 1), finalizar, agregar-capital again (2 USD at price 2, which
\* creates cycle 2) and dias.iniciar_dia(2): cycle 1 closed with its vault
\* row still in place, cycle 2 active with a row of its own and day 1 open.
InitDosCiclos ==
    /\ ciclos = <<[NuevoCiclo(30, QInt(2)) EXCEPT !.estado = "cerrado",
                                                  !.capital_final = QInt(2),
                                                  !.roi_total = Zero],
                  NuevoCiclo(30, QInt(2))>>
    /\ dias = <<NuevoDia(2, 1, QInt(2))>>
    /\ ventas = <<>>
    /\ compras = <<>>
    /\ boveda_ciclo = Poner(Poner(<<>>, <<1, 1>>, [cantidad |-> QInt(2), precio_promedio |-> QInt(1)]),
                            <<2, 1>>, [cantidad |-> QInt(1), precio_promedio |-> QInt(2)])
    /\ config = [comision_default |-> ComisionInicial]
    /\ pc = [p \in Procs |-> "menu"]
    /\ loc = [p \in Procs |-> LocInicial]
    /\ ultimo = Resultado("iniciar_dia", "ok")
    /\ depositos = Poner(Poner(<<>>, <<1, 1>>, [q |-> QInt(2), v |-> QInt(2), solo |-> TRUE]),
                         <<2, 1>>, [q |-> QInt(1), v |-> QInt(2), solo |-> TRUE])
    /\ descontadas = {}

\* moving capital inside the active cycle: the sale loop on console 1;
\* fondear_boveda and transferir_capital from the closed cycle on console
\* 2; the REST withdrawal
NextBoveda ==
    \/ \E crear \in BOOLEAN, cripto \in Criptos, monto \in Montos, tasa \in TasasQ :
         FondearBoveda(2, crear, cripto, monto, tasa)
    \/ RegistrarCompra(2)
    \/ \E cripto \in Criptos, cantidad \in CantidadesQ : ApiRetirarCapital(cripto, cantidad)
    \/ \E k \in Posiciones, cantidad \in CantidadesQ, todo \in BOOLEAN :
         TransferirCapitalLee(2, k, cantidad, todo)
    \/ TransferirCapitalTransaccion(2)
    \/ ModuloOperador(1)
    \/ \E continuar \in BOOLEAN : ModuloOperadorDiaAbierto(1, continuar)
    \/ \E cripto \in Criptos : ModuloOperadorCriptos(1, cripto)
    \/ ModuloOperadorConfig(1)
    \/ \E precio \in PreciosVenta : ModuloOperadorPrecio(1, precio)
    \/ \E cantidad \in CantidadesVendidas : ModuloOperadorVenta(1, cantidad)
    \/ RegistrarVentaManualLee(1)
    \/ RegistrarVentaManualInserta(1)
    \/ RegistrarVentaManualBoveda(1)
    \/ \E otra \in BOOLEAN : RegistrarVentaManualDia(1, otra)
    \/ ModuloOperadorCierre(1, FALSE)

SpecBoveda == InitDosCiclos /\ [][NextBoveda]_vars

\* C8: a step that changes the precio_promedio of a vault row also raises
\* the quantity of that row (a deposit or a transfer into it); a withdrawal,
\* a sale and the debit of a transfer leave precio_promedio as it was
C8_PromedioSoloCambiaAlDepositar ==
    [][\A k \in Posiciones :
         (/\ k \in DOMAIN boveda_ciclo'
          /\ boveda_ciclo'[k].precio_promedio # boveda_ciclo[k].precio_promedio)
           => QLt(boveda_ciclo[k].cantidad, boveda_ciclo'[k].cantidad)]_vars

\* a withdrawal has just been taken from the row of cycle 2 after a sale
\* was subtracted from it, and the row still carries the average of its
\* deposits
C8_RetiroTrasVenta ==
    /\ ultimo = Resultado("api_retirar_capital", "ok")
    /\ descontadas # {}
    /\ <<2, 1>> \in Posiciones
    /\ <<2, 1>> \in DOMAIN depositos
    /\ QLt(boveda_ciclo[<<2, 1>>].cantidad, depositos[<<2, 1>>].q)
    /\ QMul(boveda_ciclo[<<2, 1>>].precio_promedio, depositos[<<2, 1>>].q) = depositos[<<2, 1>>].v

\* transfers between cycles: transferir_capital and fondear_boveda on two
\* consoles, the REST transfer and the REST withdrawal
NextTransferencias ==
    \/ \E p \in Procs, crear \in BOOLEAN, cripto \in Criptos, monto \in Montos, tasa \in TasasQ :
         FondearBoveda(p, crear, cripto, monto, tasa)
    \/ \E p \in Procs : RegistrarCompra(p)
    \/ \E cripto \in Criptos, cantidad \in CantidadesQ : ApiRetirarCapital(cripto, cantidad)
    \/ \E cripto \in Criptos, cantidad \in CantidadesQ, todo \in BOOLEAN :
         ApiTransferirCapitalACiclo(cripto, cantidad, todo)
    \/ \E p \in Procs, k \in Posiciones, cantidad \in CantidadesQ, todo \in BOOLEAN :
         TransferirCapitalLee(p, k, cantidad, todo)
    \/ \E p \in Procs : TransferirCapitalTransaccion(p)

SpecTransferencias == InitDosCiclos /\ [][NextTransferencias]_vars

\* C9: a transfer that reports success lowers the quantity of a source row
\* and leaves the total value of the vault (the sum of cantidad *
\* precio_promedio over all rows) unchanged
C9_TransferenciaMueveLaCantidad ==
    [][((\/ \E cripto \in Criptos, cantidad \in CantidadesQ, todo \in BOOLEAN :
              ApiTransferirCapitalACiclo(cripto, cantidad, todo)
         \/ \E p \in Procs : TransferirCapitalTransaccion(p))
        /\ ultimo'.res = "ok")
          => /\ CapitalBovedaTotal' = CapitalBovedaTotal
             /\ \E origen \in Posiciones :
                  /\ origen \in DOMAIN boveda_ciclo'
                  /\ QLt(boveda_ciclo'[origen].cantidad, boveda_ciclo[origen].cantidad)]_vars

\* C10: the step of transferir_capital that writes either leaves the vault
\* as it was or debits the source row and credits the destination row with
\* the same quantity; no step debits alone
C10_TransferenciaAtomica ==
    [][\A p \in Procs :
         (pc[p] = "tc_transaccion" /\ pc'[p] # "tc_transaccion")
           => LET origen == <<loc[p].ciclo_origen, loc[p].cripto_id>>
                  destino == <<loc[p].ciclo_id, loc[p].cripto_id>>
                  antes == IF destino \in Posiciones THEN boveda_ciclo[destino].cantidad ELSE Zero
              IN \/ boveda_ciclo' = boveda_ciclo
                 \/ /\ origen \in Posiciones
                    /\ origen \in DOMAIN boveda_ciclo'
                    /\ destino \in DOMAIN boveda_ciclo'
                    /\ boveda_ciclo'[origen].cantidad =
                         QSub(boveda_ciclo[origen].cantidad, loc[p].cantidad)
                    /\ boveda_ciclo'[destino].cantidad = QAdd(antes, loc[p].cantidad)]_vars

\* a transfer of the row of the closed cycle went through its confirmation
\* and its transaction step, and that row holds what it held
C10_TransferenciaIntentada ==
    /\ ultimo = Resultado("transferir_capital", "AttributeError")
    /\ <<1, 1>> \in Posiciones
    /\ boveda_ciclo[<<1, 1>>].cantidad = QInt(2)
    /\ \A p \in Procs : pc[p] # "tc_transaccion"

\* quantities typed for a transfer: one that fits the rows below and one
\* that exceeds them
CantidadesTransferidas == {QInt(1), QInt(3)}

\* transfers that can fail: the funded cycle is closed and a new one opened
\* through the REST routes, the vault is emptied through the REST
\* withdrawal, transfers are asked for on both consoles and through the
\* REST route
NextTransferenciasFallidas ==
    \/ \E capital \in CapitalesIniciales : ApiIniciarNuevoCiclo(capital)
    \/ ApiFinalizarCicloActual
    \/ \E cripto \in Criptos, cantidad \in CantidadesQ : ApiRetirarCapital(cripto, cantidad)
    \/ \E cripto \in Criptos, cantidad \in CantidadesTransferidas, todo \in BOOLEAN :
         ApiTransferirCapitalACiclo(cripto, cantidad, todo)
    \/ \E p \in Procs, k \in Posiciones, cantidad \in CantidadesTransferidas, todo \in BOOLEAN :
         TransferirCapitalLee(p, k, cantidad, todo)
    \/ \E p \in Procs : TransferirCapitalTransaccion(p)

SpecTransferenciasFallidas == InitFondeado /\ [][NextTransferenciasFallidas]_vars

\* C11: a transfer that asks for more than the source row holds, or whose
\* source has no row, ends with the matching error and leaves every vault
\* row and every cycle as they were
C11_TransferenciaFallidaSinCambios ==
    [][/\ \A cripto \in Criptos, cantidad \in CantidadesTransferidas :
            (ApiTransferirCapitalACiclo(cripto, cantidad, FALSE) /\ Activos # {}) =>
              /\ (\A c \in Activos : <<c, cripto>> \notin Posiciones) =>
                    /\ ultimo'.res = "no_encontrada"
                    /\ boveda_ciclo' = boveda_ciclo
                    /\ ciclos' = ciclos
              /\ (\A c \in Activos : /\ <<c, cripto>> \in Posiciones
                                      /\ QLt(boveda_ciclo[<<c, cripto>>].cantidad, cantidad)) =>
                    /\ ultimo'.res = "cantidad_insuficiente"
                    /\ boveda_ciclo' = boveda_ciclo
                    /\ ciclos' = ciclos
       /\ \A p \in Procs, k \in Posiciones, cantidad \in CantidadesTransferidas :
            (TransferirCapitalLee(p, k, cantidad, FALSE) /\ Activos # {}) =>
              LET otros == {x \in Posiciones : x[1] # Max(Activos)
                                                /\ QLt(Zero, boveda_ciclo[x].cantidad)}
              IN /\ otros = {} =>
                       /\ ultimo'.res = "no_hay_capital_en_otros_ciclos"
                       /\ pc'[p] = "menu"
                       /\ boveda_ciclo' = boveda_ciclo
                       /\ ciclos' = ciclos
                 /\ (k \in otros /\ QLt(boveda_ciclo[k].cantidad, cantidad)) =>
                       /\ ultimo'.res = "cantidad_invalida"
                       /\ pc'[p] = "menu"
                       /\ boveda_ciclo' = boveda_ciclo
                       /\ ciclos' = ciclos
      ]_vars

\* a transfer of 3 units was refused on a console while the row of the
\* closed cycle holds 2 units
C11_TransferenciaExcesivaRechazada ==
    /\ ultimo = Resultado("transferir_capital", "cantidad_invalida")
    /\ Activos # {}
    /\ \E k \in Posiciones : /\ k[1] \in Cerrados
                             /\ boveda_ciclo[k].cantidad = QInt(2)

\* C12: a step that asks to create a cycle while a cycle is active, from the
\* REST route or from menu_ciclos on a console, adds no cycle and changes
\* none
C12_CrearConCicloActivoFalla ==
    [][(/\ Activos # {}
        /\ \/ \E capital \in CapitalesIniciales : ApiIniciarNuevoCiclo(capital)
           \/ \E p \in Procs, dias_duracion \in DiasDuracion, continuar \in BOOLEAN :
                CrearCiclo(p, dias_duracion, continuar))
       => ciclos' = ciclos]_vars

\* The database after one sale of 1 unit at price 2 on day 1 in
\* modulo_operador, the operator leaving the day open: day 1 open with its
\* totals updated, the vault row of cycle 1 down to 1 unit.
InitDiaConVenta ==
    /\ ciclos = <<NuevoCiclo(30, QInt(2))>>
    /\ dias = <<[NuevoDia(1, 1, QInt(2)) EXCEPT !.cripto_operada_id = 1,
                                                !.precio_publicado = QInt(2),
                                                !.efectivo_recibido = Q(199, 100),
                                                !.comisiones_pagadas = Q(1, 100),
                                                !.ganancia_bruta = QInt(1),
                                                !.ganancia_neta = Q(99, 100)]>>
    /\ ventas = <<[dia_id |-> 1, cripto_id |-> 1, cantidad |-> QInt(1),
                   precio_unitario |-> QInt(2), costo_total |-> QInt(1),
                   monto_venta |-> QInt(2), comision |-> Q(1, 100),
                   efectivo_recibido |-> Q(199, 100), ganancia_bruta |-> QInt(1),
                   ganancia_neta |-> Q(99, 100)]>>
    /\ compras = <<>>
    /\ boveda_ciclo = Poner(<<>>, <<1, 1>>, [cantidad |-> QInt(1), precio_promedio |-> QInt(1)])
    /\ config = [comision_default |-> ComisionInicial]
    /\ pc = [p \in Procs |-> "menu"]
    /\ loc = [p \in Procs |-> LocInicial]
    /\ ultimo = Resultado("modulo_operador", "sale")
    /\ depositos = Poner(<<>>, <<1, 1>>, [q |-> QInt(2), v |-> QInt(2), solo |-> FALSE])
    /\ descontadas = {1}

\* closing: the three operations that close a day and the two that close a
\* cycle, on two consoles and through the REST routes
NextCierres ==
    \/ ApiCerrarDia
    \/ \E p \in Procs, confirmar \in BOOLEAN : CerrarDiaManual(p, confirmar)
    \/ \E p \in Procs, confirmar \in BOOLEAN : CerrarDiaOperacionLee(p, confirmar)
    \/ \E p \in Procs : CerrarDiaOperacionDia(p)
    \/ \E p \in Procs : CerrarDiaOperacionCiclo(p, FALSE)
    \/ \E p \in Procs, dia_id \in 1..MaxDias, confirmar \in BOOLEAN :
         CerrarDiaVerifica(p, dia_id, confirmar)
    \/ \E p \in Procs : CerrarDiaCapital(p)
    \/ \E p \in Procs : CerrarDiaTotales(p)
    \/ \E p \in Procs : CerrarDiaActualizaDia(p)
    \/ \E p \in Procs : CerrarDiaActualizaCiclo(p)
    \/ ApiFinalizarCicloActual
    \/ \E p \in Procs, confirmar \in BOOLEAN : CerrarCicloLee(p, confirmar)
    \/ \E p \in Procs : CerrarCicloActualiza(p)

SpecCierres == InitDiaConVenta /\ [][NextCierres]_vars

\* C13: a call that asks to close a cycle while one of its days is open,
\* from the REST route or from the console, leaves the cycle active with
\* every field as it was
C13_CerrarCicloConDiaAbiertoFalla ==
    [][\A c \in CicloIds :
         (/\ Abiertos(c) # {}
          /\ \/ ApiFinalizarCicloActual
             \/ \E p \in Procs, confirmar \in BOOLEAN : CerrarCicloLee(p, confirmar))
         => ciclos'[c] = ciclos[c]]_vars

\* C14: a closed cycle never becomes active again, and no step changes its
\* capital_final, ganancia_total or roi_total
C14_CerradoEsTerminal ==
    [][\A c \in CicloIds :
         ciclos[c].estado = "cerrado" =>
           /\ ciclos'[c].estado = "cerrado"
           /\ ciclos'[c].capital_final = ciclos[c].capital_final
           /\ ciclos'[c].ganancia_total = ciclos[c].ganancia_total
           /\ ciclos'[c].roi_total = ciclos[c].roi_total]_vars

\* selling while the day is closed: the sale loop of modulo_operador on
\* console 1, the two other entry points that register a sale, and the
\* REST route that closes the day
NextVentasYCierre ==
    \/ ModuloOperador(1)
    \/ \E continuar \in BOOLEAN : ModuloOperadorDiaAbierto(1, continuar)
    \/ \E cripto \in Criptos : ModuloOperadorCriptos(1, cripto)
    \/ ModuloOperadorConfig(1)
    \/ \E precio \in PreciosVenta : ModuloOperadorPrecio(1, precio)
    \/ \E cantidad \in CantidadesVendidas : ModuloOperadorVenta(1, cantidad)
    \/ RegistrarVentaManualLee(1)
    \/ RegistrarVentaManualInserta(1)
    \/ RegistrarVentaManualBoveda(1)
    \/ \E otra \in BOOLEAN : RegistrarVentaManualDia(1, otra)
    \/ ModuloOperadorCierre(1, FALSE)
    \/ Biblioteca
    \/ \E cantidad \in CantidadesQ, precio \in PreciosVenta : ApiRegistrarVenta(cantidad, precio)
    \/ ApiCerrarDia

SpecVentasYCierre == InitDiaAbierto /\ [][NextVentasYCierre]_vars

\* C15: a step of an operation that registers a sale adds no sale to a day
\* that is not open and, acting for such a day, changes no vault row
C15_SinVentasEnDiaCerrado ==
    [][/\ \A v \in DOMAIN ventas' \ DOMAIN ventas :
            dias[ventas'[v].dia_id].estado = "abierto"
       /\ (RegistrarVentaManualBoveda(1) /\ dias[loc[1].dia_id].estado # "abierto")
            => boveda_ciclo' = boveda_ciclo]_vars

\* opening days while the cycle is closed: the operations of SpecDias and
\* the REST route that closes the cycle
NextDiasYCierre ==
    \/ NextDias
    \/ ApiFinalizarCicloActual

SpecDiasYCierre == InitFondeado /\ [][NextDiasYCierre]_vars

\* C16: no step adds a day to a cycle that is not active
C16_SinDiasEnCicloCerrado ==
    [][\A d \in DOMAIN dias' \ DOMAIN dias :
         /\ dias'[d].ciclo_id \in CicloIds
         /\ ciclos[dias'[d].ciclo_id].estado = "activo"]_vars

\* C17: a call that asks to close a day that is already closed ends with
\* the refusal, returns to the menu without a pending write, and leaves
\* every day and every cycle as they were; the REST route, which takes no
\* day, leaves every closed day as it was
C17_CerrarDiaCerradoFalla ==
    [][/\ \A p \in Procs, dia_id \in DiaIds, confirmar \in BOOLEAN :
            (CerrarDiaVerifica(p, dia_id, confirmar) /\ dias[dia_id].estado = "cerrado") =>
              /\ ultimo' = Resultado("cerrar_dia", "ya_cerrado")
              /\ pc'[p] = "menu"
              /\ dias' = dias
              /\ ciclos' = ciclos
       /\ \A p \in Procs, confirmar \in BOOLEAN :
            (CerrarDiaOperacionLee(p, confirmar) /\ dias[loc[p].dia_id].estado = "cerrado") =>
              /\ ultimo' = Resultado("cerrar_dia_operacion", "ya_cerrado")
              /\ pc'[p] = "menu"
              /\ dias' = dias
              /\ ciclos' = ciclos
       /\ ApiCerrarDia =>
              /\ \A d \in DiaIds : dias[d].estado = "cerrado" => dias'[d] = dias[d]
              /\ (\A d \in DiaIds : dias[d].estado = "cerrado") => ciclos' = ciclos
      ]_vars

\* dias.cerrar_dia was refused for day 1, closed with its sale counted once
C17_CierreRepetidoRechazado ==
    /\ ultimo = Resultado("cerrar_dia", "ya_cerrado")
    /\ dias[1].estado = "cerrado"
    /\ ciclos[1].dias_operados = 1
    /\ ciclos[1].ganancia_total = Q(99, 100)

\* C18: in every reachable state, the states two interleaved closings of
\* one day pass through included, dias_operados of every cycle is the
\* number of its closed days and ganancia_total is the sum of their
\* ganancia_neta
C18_ContadoresDelCiclo ==
    \A c \in CicloIds :
      /\ ciclos[c].dias_operados = Cardinality(DiasCerrados(c))
      /\ ciclos[c].ganancia_total = QSum([d \in DiaIds |-> dias[d].ganancia_neta], DiasCerrados(c))

\* C19: a step that ends an operation with a domain error changes no table,
\* and the call it ends has written nothing before it: the sale that
\* registrar_venta_manual refuses for lack of inventory has no row in ventas
C19_ErrorAntesDeMutar ==
    [][(/\ ultimo' # ultimo \/ (pc' = pc /\ loc' = loc)
        /\ ultimo'.res \in {"ya_existe_ciclo_activo", "no_hay_ciclo_activo", "hay_un_dia_abierto",
                        "ya_hay_un_dia_abierto", "ya_existe_dia_abierto", "no_hay_dia_activo",
                        "ya_cerrado", "no_encontrada", "no_encontrado", "dia_no_encontrado",
                        "insuficiente", "cantidad_insuficiente", "cantidad_invalida",
                        "no_hay_criptos_en_boveda", "error_al_calcular", "costo_promedio_es_0"})
        => /\ tablas' = tablas
           /\ \A p \in Procs :
                (pc[p] = "rv_boveda" /\ pc'[p] = "op_venta") =>
                  loc[p].venta_id \notin DOMAIN ventas]_vars

\* maintenance beside the operations that append purchases: the
\* reinvestment of the cash of the closed day and fondear_boveda on console
\* 1, the REST closing of the cycle, and the two maintenance options on
\* both consoles
NextMantenimiento ==
    \/ AplicarInteresManual(1)
    \/ \E cripto \in Criptos, tasa \in TasasQ : AplicarInteresCompuestoLee(1, cripto, tasa)
    \/ AplicarInteresCompuestoCompra(1)
    \/ AplicarInteresCompuestoBoveda(1)
    \/ \E crear \in BOOLEAN, cripto \in Criptos, monto \in Montos, tasa \in TasasQ :
         FondearBoveda(1, crear, cripto, monto, tasa)
    \/ RegistrarCompra(1)
    \/ ApiFinalizarCicloActual
    \/ \E p \in Procs, ciclo_id \in 0..MaxCiclos, confirmar \in BOOLEAN :
         LimpiarDatosCiclosAntiguosLee(p, ciclo_id, confirmar)
    \/ \E p \in Procs : LimpiarDatosCiclosAntiguosTransaccion(p)
    \/ \E p \in Procs : RepararInconsistencias(p)

SpecMantenimiento == InitDiaCerrado /\ [][NextMantenimiento]_vars

PreciosDecimales == {QInt(2), Q(253, 250)}
CantidadesDecimales == {Zero, QInt(1), Q(1, 2)}

\* selling at prices and quantities with decimals: the sale loop of
\* modulo_operador on console 1 and the REST route
NextVentasDecimales ==
    \/ ModuloOperador(1)
    \/ \E continuar \in BOOLEAN : ModuloOperadorDiaAbierto(1, continuar)
    \/ \E cripto \in Criptos : ModuloOperadorCriptos(1, cripto)
    \/ ModuloOperadorConfig(1)
    \/ \E precio \in PreciosDecimales : ModuloOperadorPrecio(1, precio)
    \/ \E cantidad \in CantidadesDecimales : ModuloOperadorVenta(1, cantidad)
    \/ RegistrarVentaManualLee(1)
    \/ RegistrarVentaManualInserta(1)
    \/ RegistrarVentaManualBoveda(1)
    \/ \E otra \in BOOLEAN : RegistrarVentaManualDia(1, otra)
    \/ ModuloOperadorCierre(1, FALSE)
    \/ \E cantidad \in CantidadesDecimales \ {Zero}, precio \in PreciosDecimales :
         ApiRegistrarVenta(cantidad, precio)

SpecVentasDecimales == InitDiaAbierto /\ [][NextVentasDecimales]_vars

\* C21: every row of ventas satisfies, on its stored values,
\* efectivo_recibido = monto_venta - comision, ganancia_bruta = monto_venta -
\* costo_total and ganancia_neta = efectivo_recibido - costo_total
C21_DesgloseConsistente ==
    \A v \in DOMAIN ventas :
      /\ ventas[v].efectivo_recibido = QSub(ventas[v].monto_venta, ventas[v].comision)
      /\ ventas[v].ganancia_bruta = QSub(ventas[v].monto_venta, ventas[v].costo_total)
      /\ ventas[v].ganancia_neta = QSub(ventas[v].efectivo_recibido, ventas[v].costo_total)

\* the calculator applied to bounded arguments on console 1
NextCalculos == Calculos(1)

SpecCalculos == Init /\ [][NextCalculos]_vars

\* closing a cycle that has a closed day with profit, while the REST route
\* deposits into it
NextCierreCiclo ==
    \/ \E p \in Procs, confirmar \in BOOLEAN : CerrarCicloLee(p, confirmar)
    \/ \E p \in Procs : CerrarCicloActualiza(p)
    \/ ApiFinalizarCicloActual
    \/ \E cripto \in Criptos, monto \in Montos, tasa \in TasasQ :
         ApiAgregarCapital(cripto, monto, tasa)

SpecCierreCiclo == InitDiaCerrado /\ [][NextCierreCiclo]_vars

\* C22: a step that closes a cycle leaves its roi_total equal to
\* ganancia_total / inversion_inicial * 100 of that cycle, and to 0 when
\* inversion_inicial <= 0
C22_RoiAlCerrar ==
    [][\A c \in CicloIds :
         (ciclos[c].estado = "activo" /\ ciclos'[c].estado = "cerrado")
           => ciclos'[c].roi_total =
                IF QLe(ciclos'[c].inversion_inicial, Zero) THEN Zero
                ELSE QMul(QDiv(ciclos'[c].ganancia_total, ciclos'[c].inversion_inicial),
                          QInt(100))]_vars

\* the console on which calcular_precio_sugerido has just returned
ConPrecioSugerido(p) ==
    /\ ultimo.op = "calcular_precio_sugerido"
    /\ loc[p].calc # <<>>
    /\ "precio_sugerido" \in DOMAIN loc[p].calc

\* 1 - (comision_pct + ganancia_objetivo_pct) / 100 of the last call
Divisor(p) ==
    QSub(QInt(1), QDiv(QAdd(loc[p].calc.comision_pct, loc[p].calc.ganancia_objetivo_pct),
                       QInt(100)))

NextExtender ==
    \/ \E p \in Procs : ExtenderCicloMenu(p)
    \/ \E p \in Procs, dias_adicionales \in DiasAdicionales :
         ExtenderCicloLee(p, dias_adicionales)
    \/ \E p \in Procs : ExtenderCicloActualiza(p)
    \/ \E p \in Procs, dias_duracion \in DiasDuracion, continuar \in BOOLEAN :
         CrearCiclo(p, dias_duracion, continuar)
    \/ \E capital \in CapitalesIniciales : ApiIniciarNuevoCiclo(capital)
    \/ ApiFinalizarCicloActual

SpecExtender == InitFondeado /\ [][NextExtender]_vars

\* C24: a call of extender_ciclo with dias_adicionales >= 1 ends with
\* dias_planificados of the cycle increased by dias_adicionales and its
\* estado, dias_operados, inversion_inicial and ganancia_total as they were;
\* with dias_adicionales < 1 it ends with an error and ciclos unchanged
C24_ExtenderCiclo ==
    [][\A p \in Procs, d \in DiasAdicionales :
         LET c == loc[p].ciclo_id
             termina == \/ ExtenderCicloLee(p, d) /\ pc'[p] = "menu"
                        \/ ExtenderCicloActualiza(p) /\ loc[p].calc.dias_adicionales = d
         IN termina =>
              IF d >= 1
              THEN /\ ciclos'[c].dias_planificados = ciclos[c].dias_planificados + d
                   /\ ciclos'[c].estado = ciclos[c].estado
                   /\ ciclos'[c].dias_operados = ciclos[c].dias_operados
                   /\ ciclos'[c].inversion_inicial = ciclos[c].inversion_inicial
                   /\ ciclos'[c].ganancia_total = ciclos[c].ganancia_total
              ELSE /\ ultimo'.res = "dias_invalidos"
                   /\ ciclos' = ciclos]_vars

\* selling on console 1 while console 2 changes the commission
NextComision ==
    \/ ModuloOperador(1)
    \/ \E continuar \in BOOLEAN : ModuloOperadorDiaAbierto(1, continuar)
    \/ \E cripto \in Criptos : ModuloOperadorCriptos(1, cripto)
    \/ ModuloOperadorConfig(1)
    \/ \E precio \in PreciosVenta : ModuloOperadorPrecio(1, precio)
    \/ \E cantidad \in CantidadesVendidas : ModuloOperadorVenta(1, cantidad)
    \/ RegistrarVentaManualLee(1)
    \/ RegistrarVentaManualInserta(1)
    \/ RegistrarVentaManualBoveda(1)
    \/ \E otra \in BOOLEAN : RegistrarVentaManualDia(1, otra)
    \/ ModuloOperadorCierre(1, FALSE)
    \/ \E nueva_comision \in ComisionesNuevas : ModificarComisionManual(2, nueva_comision)

SpecComision == InitDiaAbierto /\ [][NextComision]_vars

\* C25: a step that inserts a row of ventas gives it the commission
\* cantidad * precio_unitario * comision_default / 100 (as stored, to 2
\* decimals), with the comision_default config holds at that step
C25_ComisionVigente ==
    [][Len(ventas') = Len(ventas) + 1 =>
         LET v == ventas'[Len(ventas')] IN
         v.comision = Round(QMul(QMul(v.cantidad, v.precio_unitario),
                                 QDiv(config.comision_default, QInt(100))), 2)]_vars

\* selling on console 1 while the REST route deposits into the vault row
NextVentasConDepositos ==
    \/ ModuloOperador(1)
    \/ \E continuar \in BOOLEAN : ModuloOperadorDiaAbierto(1, continuar)
    \/ \E cripto \in Criptos : ModuloOperadorCriptos(1, cripto)
    \/ ModuloOperadorConfig(1)
    \/ \E precio \in PreciosVenta : ModuloOperadorPrecio(1, precio)
    \/ \E cantidad \in CantidadesVendidas : ModuloOperadorVenta(1, cantidad)
    \/ RegistrarVentaManualLee(1)
    \/ RegistrarVentaManualInserta(1)
    \/ RegistrarVentaManualBoveda(1)
    \/ \E otra \in BOOLEAN : RegistrarVentaManualDia(1, otra)
    \/ ModuloOperadorCierre(1, FALSE)
    \/ \E cripto \in Criptos, monto \in Montos, tasa \in TasasQ :
         ApiAgregarCapital(cripto, monto, tasa)

SpecVentasConDepositos == InitDiaAbierto /\ [][NextVentasConDepositos]_vars

\* the vault row a sale of console p is about
FilaDeVenta(p) == <<dias[loc[p].dia_id].ciclo_id, loc[p].cripto_id>>

C27_TotalesDelDia ==
    [][\A d \in DiaIds :
         (dias[d].estado = "abierto" /\ dias'[d].estado = "cerrado") =>
           LET suma(campo) == QSum([v \in DOMAIN ventas' |-> ventas'[v][campo]],
                                   {v \in DOMAIN ventas' : ventas'[v].dia_id = d})
           IN /\ dias'[d].comisiones_pagadas = suma("comision")
              /\ dias'[d].ganancia_bruta = suma("ganancia_bruta")
              /\ dias'[d].ganancia_neta = suma("ganancia_neta")]_vars

\* C28: a step that closes a day leaves its capital_final equal to its
\* capital_inicial plus its ganancia_neta, whichever operation closes it
C28_CapitalFinal ==
    [][\A d \in DiaIds :
         (dias[d].estado = "abierto" /\ dias'[d].estado = "cerrado") =>
           dias'[d].capital_final = QAdd(dias'[d].capital_inicial, dias'[d].ganancia_neta)]_vars

\* C29: in every reachable state the days of each cycle, in the order they
\* were opened, carry the numbers 1, 2, ..., n
C29_NumerosDeDia ==
    \A c \in CicloIds :
      \A d \in DiasDe(c) :
        dias[d].numero_dia = Cardinality({e \in DiasDe(c) : e <= d})

\* The database after agregar-capital of 2 USD at price 1 and of 2 USD at
\* price 2 and retirar-capital of 1 unit: cycle 1 active, its vault row at 2
\* units of average cost 4/3.
InitBovedaRetirada ==
    /\ ciclos = <<NuevoCiclo(30, QInt(4))>>
    /\ dias = <<>>
    /\ ventas = <<>>
    /\ compras = <<>>
    /\ boveda_ciclo = Poner(<<>>, <<1, 1>>, [cantidad |-> QInt(2), precio_promedio |-> Q(4, 3)])
    /\ config = [comision_default |-> ComisionInicial]
    /\ pc = [p \in Procs |-> "menu"]
    /\ loc = [p \in Procs |-> LocInicial]
    /\ ultimo = Resultado("api_retirar_capital", "ok")
    /\ depositos = Poner(<<>>, <<1, 1>>, [q |-> QInt(3), v |-> QInt(4), solo |-> FALSE])
    /\ descontadas = {}

\* opening days with dias.iniciar_dia on console 1 and with modulo_operador
\* on console 2 while the REST routes deposit and close the day
NextDiasConBoveda ==
    \/ \E c \in CicloIds : IniciarDiaVerifica(1, c)
    \/ IniciarDiaNumero(1)
    \/ IniciarDiaCapital(1)
    \/ IniciarDiaInserta(1)
    \/ ModuloOperador(2)
    \/ ModuloOperadorDiaAbierto(2, FALSE)
    \/ ModuloOperadorCapital(2)
    \/ IniciarDiaOperacionNumero(2)
    \/ IniciarDiaOperacionInserta(2)
    \/ \E cripto \in Criptos : ModuloOperadorCriptos(2, cripto)
    \/ \E cripto \in Criptos, monto \in Montos, tasa \in TasasQ :
         ApiAgregarCapital(cripto, monto, tasa)
    \/ ApiCerrarDia

SpecDiasConBoveda == InitBovedaRetirada /\ [][NextDiasConBoveda]_vars

NextDepositos ==
    \/ \E p \in Procs, crear \in BOOLEAN, cripto \in Criptos, monto \in Montos, tasa \in TasasQ :
         FondearBoveda(p, crear, cripto, monto, tasa)
    \/ \E p \in Procs : RegistrarCompra(p)
    \/ \E cripto \in Criptos, monto \in Montos, tasa \in TasasQ :
         ApiAgregarCapital(cripto, monto, tasa)

SpecDepositos == Init /\ [][NextDepositos]_vars

\* the row of compras a deposit of monto_usd at tasa into <<ciclo_id,
\* cripto_id>> is to leave
CompraDe(ciclo_id, cripto_id, monto_usd, tasa) ==
    [ciclo_id |-> ciclo_id, cripto_id |-> cripto_id, cantidad |-> QDiv(monto_usd, tasa),
     monto_usd |-> monto_usd, tasa |-> tasa]

\* C31: every deposit that succeeds, through registrar_compra or through
\* POST /api/boveda/agregar-capital, appends exactly one row to compras, and
\* the row carries the cycle, the asset, the quantity, the USD amount and
\* the rate of the deposit
C31_CadaDepositoRegistraCompra ==
    [][/\ \A p \in Procs :
            RegistrarCompra(p)
              => compras' = Append(compras, CompraDe(loc[p].ciclo_id, loc[p].cripto_id,
                                                     loc[p].capital, loc[p].tasa))
       /\ \A cripto \in Criptos, monto \in Montos, tasa \in TasasQ :
            ApiAgregarCapital(cripto, monto, tasa)
              => \E c \in DOMAIN ciclos' :
                   compras' = Append(compras, CompraDe(c, cripto, monto, tasa))]_vars

\* C32: a cycle created without an initial investment (POST
\* /api/ciclos/iniciar with capital_inicial 0, or crear_ciclo) gets as
\* inversion_inicial the value of the vault rows of the closed cycle with
\* the highest id, and 0 when there is no closed cycle
C32_InversionDelUltimoCerrado ==
    [][\A p \in Procs, dias_duracion \in DiasDuracion, continuar \in BOOLEAN :
         (/\ ApiIniciarNuevoCiclo(Zero) \/ CrearCiclo(p, dias_duracion, continuar)
          /\ Len(ciclos') = Len(ciclos) + 1)
           => ciclos'[Len(ciclos')].inversion_inicial =
                IF Cerrados = {} THEN Zero ELSE CapitalBoveda(Max(Cerrados))]_vars

\* ------------------------------------------------------------------------
\* A vault row that ran out: deleted by a withdrawal, kept at 0 by a sale
\* ------------------------------------------------------------------------
\* the sale loop on console 1, deposits on console 2, the REST withdrawal
\* and dias.registrar_venta, on the open day of cycle 1
NextPosicionVacia ==
    \/ ModuloOperador(1)
    \/ \E continuar \in BOOLEAN : ModuloOperadorDiaAbierto(1, continuar)
    \/ \E cripto \in Criptos : ModuloOperadorCriptos(1, cripto)
    \/ ModuloOperadorConfig(1)
    \/ \E precio \in PreciosVenta : ModuloOperadorPrecio(1, precio)
    \/ \E cantidad \in CantidadesVendidas : ModuloOperadorVenta(1, cantidad)
    \/ RegistrarVentaManualLee(1)
    \/ RegistrarVentaManualInserta(1)
    \/ RegistrarVentaManualBoveda(1)
    \/ \E otra \in BOOLEAN : RegistrarVentaManualDia(1, otra)
    \/ ModuloOperadorCierre(1, FALSE)
    \/ \E crear \in BOOLEAN, cripto \in Criptos, monto \in Montos, tasa \in TasasQ :
         FondearBoveda(2, crear, cripto, monto, tasa)
    \/ RegistrarCompra(2)
    \/ \E cripto \in Criptos, cantidad \in CantidadesQ : ApiRetirarCapital(cripto, cantidad)
    \/ Biblioteca

SpecPosicionVacia == InitDiaAbierto /\ [][NextPosicionVacia]_vars

\* no row for <<ciclo_id, cripto_id>>, or a row with quantity 0
SinExistencia(k) == k \notin Posiciones \/ boveda_ciclo[k].cantidad = Zero

CantidadVendida(k) ==
    QSum([v \in DOMAIN ventas |-> ventas[v].cantidad],
         {v \in DOMAIN ventas : dias[ventas[v].dia_id].ciclo_id = k[1]
                                /\ ventas[v].cripto_id = k[2]})

\* C34: for every cycle and asset the quantity of the vault row (0 without
\* a row) is the quantity deposited into it minus the quantity of the rows
\* of ventas of that cycle's days for that asset; where sales and deposits
\* are the only operations nothing is withdrawn or transferred
C34_InventarioConservado ==
    \A k \in CicloIds \X Criptos :
      CantidadDisponible(k) =
        QSub(IF k \in DOMAIN depositos THEN depositos[k].q ELSE Zero, CantidadVendida(k))

\* C35: in every reachable state every day with estado = 'abierto' belongs
\* to a cycle with estado = 'activo'
C35_DiaAbiertoEnCicloActivo ==
    \A d \in DiaIds :
      dias[d].estado = "abierto" =>
        /\ dias[d].ciclo_id \in CicloIds
        /\ ciclos[dias[d].ciclo_id].estado = "activo"

\* ------------------------------------------------------------------------
\* Reinvesting the cash of a closed day, call after call
\* ------------------------------------------------------------------------
\* menu_operador_avanzado option 5 on console 1, one call after the other,
\* while console 2 funds the vault
NextReinversion ==
    \/ AplicarInteresManual(1)
    \/ \E cripto \in Criptos, tasa \in TasasQ : AplicarInteresCompuestoLee(1, cripto, tasa)
    \/ AplicarInteresCompuestoCompra(1)
    \/ AplicarInteresCompuestoBoveda(1)
    \/ \E crear \in BOOLEAN, cripto \in Criptos, monto \in Montos, tasa \in TasasQ :
         FondearBoveda(2, crear, cripto, monto, tasa)
    \/ RegistrarCompra(2)

SpecReinversion == InitDiaCerrado /\ [][NextReinversion]_vars

\* the rows of compras that reinvest the cash of day d: monto_usd is the
\* efectivo_recibido of the day (1.99 here, while fondear_boveda deposits 2)
Reinversiones(d) ==
    {c \in DOMAIN compras : /\ compras[c].ciclo_id = dias[d].ciclo_id
                            /\ compras[c].monto_usd = dias[d].efectivo_recibido}

\* C36: the cash of a closed day is reinvested at most once: when the calls
\* of aplicar_interes_compuesto come one after the other, compras never
\* holds two purchases made with the cash of the same day
C36_UnaReinversionPorDia ==
    \A d \in DiaIds : Cardinality(Reinversiones(d)) <= 1

\* C37: for a cost > 0, a commission >= 0 and a target >= 0 that together
\* stay below 100 %, the margin estimated at the suggested price is at
\* least the target
C37_PrecioSugeridoAlcanzaObjetivo ==
    \A p \in Procs :
      (/\ ultimo.op = "calcular_ganancia_neta_estimada"
       /\ "ganancia_neta_estimada" \in DOMAIN loc[p].calc
       /\ loc[p].calc.precio_venta = loc[p].calc.precio_sugerido
       /\ QLt(Zero, loc[p].calc.costo_promedio)
       /\ QLe(Zero, loc[p].calc.comision_pct)
       /\ QLe(Zero, loc[p].calc.ganancia_objetivo_pct)
       /\ QLt(QAdd(loc[p].calc.comision_pct, loc[p].calc.ganancia_objetivo_pct), QInt(100)))
        => QLe(loc[p].calc.ganancia_objetivo_pct, loc[p].calc.ganancia_neta_estimada)

\* ------------------------------------------------------------------------
\* Closing under fairness
\* ------------------------------------------------------------------------
\* the operator on console 1 asks to close days (dias.cerrar_dia) and the
\* active cycle (cerrar_ciclo), confirming or not; console 2 keeps opening
\* days and creating cycles
PideCerrarDia == \E d \in DiaIds : dias[d].estado = "abierto" /\ CerrarDiaVerifica(1, d, TRUE)

SigueCerrandoDia ==
    \/ CerrarDiaCapital(1)
    \/ CerrarDiaTotales(1)
    \/ CerrarDiaActualizaDia(1)
    \/ CerrarDiaActualizaCiclo(1)

NextCierreJusto ==
    \/ \E dia_id \in 1..MaxDias, confirmar \in BOOLEAN : CerrarDiaVerifica(1, dia_id, confirmar)
    \/ SigueCerrandoDia
    \/ \E confirmar \in BOOLEAN : CerrarCicloLee(1, confirmar)
    \/ CerrarCicloActualiza(1)
    \/ \E c \in CicloIds : IniciarDiaVerifica(2, c)
    \/ IniciarDiaNumero(2)
    \/ IniciarDiaCapital(2)
    \/ IniciarDiaInserta(2)
    \/ \E dias_duracion \in DiasDuracion, continuar \in BOOLEAN :
         CrearCiclo(2, dias_duracion, continuar)

\* menu_ciclos option [3] goes through to the UPDATE: console 1 is at the menu, a
\* cycle is active and none of its days is open
PuedeCerrarCiclo == pc[1] = "menu" /\ Activos # {} /\ Abiertos(Max(Activos)) = {}

\* weak fairness of the operator's confirmed close-cycle request, with its
\* enabling condition written out: a request that from some point on would
\* always go through is made infinitely often
JustoCerrarCiclo == ([]<>(~PuedeCerrarCiclo)) \/ ([]<><<CerrarCicloLee(1, TRUE)>>_vars)

\* the operator's requests to close are scheduled fairly, and a call that
\* has started runs to its end
SpecCierreJusto ==
    /\ InitDiaConVenta
    /\ [][NextCierreJusto]_vars
    /\ WF_vars(PideCerrarDia)
    /\ WF_vars(SigueCerrandoDia)
    /\ JustoCerrarCiclo
    /\ WF_vars(CerrarCicloActualiza(1))

====
